---- MODULE Spec2Model ----
(***************************************************************************)
(* project-dashboard. Resilience utilities (src/resilience.py): the        *)
(* CircuitBreaker state machine, called one operation at a time (Spec) and *)
(* by concurrent callers (SpecConc), the retry decorator (SpecRetry), and  *)
(* retry_with_circuit_breaker and protect around one breaker               *)
(* (SpecInvoker). Email automation scheduling                              *)
(* (src/email_automation/scheduling): JobRegistry.run_job called by the    *)
(* scheduler's workers and by a request thread (SpecJobs), and             *)
(* EmailScheduler.start and stop (SpecSched). Notifications                *)
(* (src/email_automation/notifications): NotificationRouter.send over the  *)
(* Telegram and Slack channels (SpecNotify). Inbox                         *)
(* (src/email_automation/inbox/fetcher.py): fetch_all_accounts and the     *)
(* mailbox session of fetch_account (SpecFetch), and _fetch_messages with  *)
(* the attachments of each message (SpecMessages). School letters          *)
(* (src/email_automation/school/letter_parser.py): parse_letter and        *)
(* _determine_urgency (SpecLetter).                                        *)
(***************************************************************************)
EXTENDS Integers, Sequences, FiniteSets, TLC

(* ------------------------------ bounds -------------------------------- *)
MaxThreshold == 3
MaxTimeout == 2
MaxProbes == 2
MaxTime == 3
MaxFailures == 4
NumThreads == 2
MaxCalls == 4
MaxAttempts == 3
MaxBaseDelay == 2
MaxMaxDelay == 3
MaxExpBase == 2
MaxWrapperCalls == 2
MaxRuns == 3
MaxStarts == 3
MaxRoute == 2
MaxSends == 2
MaxAccounts == 2
\* message ids of a _fetch_messages call, and parts of a message
MaxMessages == 2
MaxParts == 2
\* date expressions and trigger types of a letter, together
MaxItems == 2
\* days before and after today of the earliest date of an analysis built by hand
MaxPast == 1
MaxAhead == 8

(* --------------------------- CircuitState ------------------------------ *)
CLOSED == "closed"
OPEN == "open"
HALF_OPEN == "half_open"
CircuitState == {CLOSED, OPEN, HALF_OPEN}

\* Optional[datetime] = None: no failure has been recorded since the breaker closed
None == -1

VARIABLES
    \* CircuitBreaker configuration (dataclass fields, fixed after construction)
    failure_threshold, reset_timeout_seconds, half_open_max_calls,
    \* CircuitBreaker internal state
    _state, _failure_count, _last_failure_time, _half_open_calls,
    \* datetime.now(), in ticks
    now,
    \* observation of the calls made on the breaker
    lastOp,     \* the operation that produced the current state
    ret,        \* what that operation returned
    streak,     \* record_failure() calls since the last record_success()/reset()/construction
    base,       \* _state right after that record_success()/reset()/construction
    baseFrom,   \* _state right before that record_success(); "reset", "init" otherwise
    peak,       \* the longest streak so far
    prev,       \* _state right before the last operation
    grants,     \* allow_request() calls answered True in the current HalfOpen episode
    \* concurrent callers of one breaker (SpecConc)
    pc,           \* per caller: the statement it executes next ("idle": between calls)
    loc,          \* per caller: the value it loaded for an augmented assignment
    cgrants,      \* allow_request() calls answered True in HALF_OPEN since the breaker last became HALF_OPEN
    failsDone,    \* record_failure() calls that returned, while onlyFailures
    onlyFailures, \* no call other than record_failure() was begun
    ncalls,       \* calls begun by the concurrent callers
    \* retry(...): the decorator's arguments
    max_attempts, base_delay, max_delay, exponential_base, jitter, exceptions, on_retry,
    \* retry(...): one call of the wrapper
    attempt,         \* the loop variable
    rpc,             \* "call": about to invoke func; "except": in the handler; "done"
    last_exception,  \* the failure caught last
    events,          \* what the wrapper did, in order: call, on_retry, sleep
    outcome,         \* how the wrapper ended: a returned value or a raised failure
    \* a function wrapped by retry_with_circuit_breaker(...) or by CircuitBreaker.protect
    name,            \* the breaker's service name
    wrapped_by,      \* the wrapper of the call in progress or finished last
    entry,           \* the breaker as the call found it
    icalls,          \* calls of a wrapper begun
    \* JobRegistry
    _jobs,                  \* the ids of the registered jobs
    _db_start_callback,     \* whether the job-started callback is set
    _db_complete_callback,  \* whether the job-completed callback is set
    running,                \* per thread: the run_job call it is in
    last,                   \* the run_job call that returned last
    nruns,                  \* run_job calls begun
    failed_before,          \* a closure has raised in a run that returned
    \* EmailScheduler
    jobs_config,            \* config["jobs"], in order
    APSCHEDULER_AVAILABLE,  \* the scheduling library was imported
    enabled,
    _scheduler,             \* the BackgroundScheduler instance (the number of the start() that made it)
    _running,
    jobstore,               \* the jobs added to _scheduler
    nstarts,                \* start() calls
    last_start,             \* what the last start() returned and did
    \* NotificationRouter and its channels
    channels,        \* per channel name: registered with the router, enabled, credential present
    routing,         \* per priority: the channel names, in order
    db_callback,     \* whether the notification-history callback is set
    npc,             \* "idle": no send() in progress; "loop": in the loop over target_channels
    send_priority,   \* the priority of the send() in progress or finished last
    ci,              \* the position of the loop in target_channels
    sent,            \* the results list of the send() in progress
    nlog,            \* what the send() in progress did, in order
    last_send,       \* what the router's send() returned, if it was the last call to return
    direct,          \* what a channel's send() called from outside the router did, if it was the last
    net_streak,      \* per channel: network attempts that failed in a row
    nsends,          \* send() calls begun, of the router and of channels
    \* InboxFetcher
    accounts,          \* the configured accounts, in order
    db_store,          \* whether the digest store callback is set
    fpc,               \* "idle", "loop": between two accounts, "session": in fetch_account, "done"
    ai,                \* the position of the loop in accounts
    inboxes,           \* fetch_all_accounts: results
    errors,            \* fetch_all_accounts: errors
    total_attachments, \* fetch_all_accounts: the running total
    total_pdfs,        \* fetch_all_accounts: the running total
    inbox,             \* fetch_account: result, the AccountInbox being filled
    mail,              \* fetch_account: the connection, None before it is established
    step,              \* fetch_account: the position in the session
    session,           \* what fetch_account did with the mail server in the call in progress
    sessions,          \* the same for every fetch_account call that returned, in order
    fetch_result,      \* what fetch_all_accounts returned
    \* InboxFetcher._fetch_messages
    extract_pdfs,      \* InboxFetcher.extract_pdfs
    db_attachment,     \* whether the attachment store callback is set
    mpc,               \* "idle", "loop": between two messages, "done"
    message_ids,       \* the number of message ids of the call; the ids are 1..message_ids
    extract_attachments, \* the parameter of the call
    mi,                \* the message id the loop is at; the loop runs from the newest id down
    messages,          \* the ids of the EmailMessages collected so far, in order
    attachment_count,  \* _fetch_messages: total_attachments
    pdf_count,         \* _fetch_messages: total_pdfs
    att_stored,        \* the number of attachments the store callback has accepted
    last_message,      \* what the last iteration of the loop met and did
    \* parse_letter
    today,             \* date.today()
    lop,               \* "idle", or the function applied last: "parse_letter", "_determine_urgency"
    letter,            \* the text given to parse_letter
    analysis           \* the LetterAnalysis

cfgVars == <<failure_threshold, reset_timeout_seconds, half_open_max_calls>>
cbVars == <<_state, _failure_count, _last_failure_time, _half_open_calls>>
obsVars == <<lastOp, ret, prev, streak, base, baseFrom, peak, grants>>
concVars == <<pc, loc, cgrants, failsDone, onlyFailures, ncalls>>
retryCfg == <<max_attempts, base_delay, max_delay, exponential_base, jitter, exceptions, on_retry>>
retryVars == <<retryCfg, attempt, rpc, last_exception, events, outcome>>
invVars == <<name, wrapped_by, entry, icalls>>
jobVars == <<_jobs, _db_start_callback, _db_complete_callback, running, last, nruns, failed_before>>
schedVars == <<jobs_config, APSCHEDULER_AVAILABLE, enabled, _scheduler, _running, jobstore, nstarts, last_start>>
notifyVars == <<channels, routing, db_callback, npc, send_priority, ci, sent, nlog, last_send,
                direct, net_streak, nsends>>
fetchVars == <<accounts, db_store, fpc, ai, inboxes, errors, total_attachments, total_pdfs,
               inbox, mail, step, session, sessions, fetch_result>>
msgVars == <<extract_pdfs, db_attachment, mpc, message_ids, extract_attachments, mi, messages,
             attachment_count, pdf_count, att_stored, last_message>>
letterVars == <<today, lop, letter, analysis>>
mailVars == <<notifyVars, fetchVars, msgVars, letterVars>>
restVars == <<jobVars, schedVars, mailVars>>
moreVars == <<invVars, restVars>>
vars == <<cfgVars, cbVars, now, obsVars, concVars, retryVars, moreVars>>

Threads == 1..NumThreads

\* the threads that call run_job: two workers of the scheduler and a request thread
Runners == {"worker1", "worker2", "http"}

\* scheduler.py line 76: job_defaults, max_instances
max_instances == 1

(* ------------------------- CircuitBreaker ------------------------------ *)

\* _should_attempt_reset
_should_attempt_reset ==
    IF _last_failure_time = None THEN TRUE
    ELSE now >= _last_failure_time + reset_timeout_seconds

\* the state property: whether reading it moves OPEN -> HALF_OPEN
state_transitions == _state = OPEN /\ _should_attempt_reset

\* the state property, as an operation: the lazy transition, then the value read
state ==
    /\ _state' = IF state_transitions THEN HALF_OPEN ELSE _state
    /\ _half_open_calls' = IF state_transitions THEN 0 ELSE _half_open_calls
    /\ UNCHANGED <<_failure_count, _last_failure_time>>

\* (mutation) the probe check off by one
probe_allowed_inclusive(calls) == calls <= half_open_max_calls

\* allow_request: the HALF_OPEN branch admits a call while the probe counter is below the limit
probe_allowed(calls) == calls < half_open_max_calls

\* allow_request's return value, given the state the state property returned
allow_result(st, calls) ==
    IF st = CLOSED THEN TRUE
    ELSE IF st = HALF_OPEN THEN probe_allowed(calls)
    ELSE FALSE

allow_request ==
    LET st == IF state_transitions THEN HALF_OPEN ELSE _state
        calls == IF state_transitions THEN 0 ELSE _half_open_calls
    IN  /\ _state' = st
        /\ _half_open_calls' = IF st = HALF_OPEN /\ probe_allowed(calls)
                                 THEN calls + 1 ELSE calls
        /\ UNCHANGED <<_failure_count, _last_failure_time>>

\* (mutation) the HALF_OPEN branch closes the circuit but keeps the failure count
record_success_keeps_count ==
    /\ _state' = IF _state = HALF_OPEN THEN CLOSED ELSE _state
    /\ _failure_count' = IF _state = CLOSED THEN 0 ELSE _failure_count
    /\ _last_failure_time' = IF _state = HALF_OPEN THEN None ELSE _last_failure_time
    /\ UNCHANGED _half_open_calls

\* (mutation) a success on a CLOSED breaker leaves the failure count alone
record_success_closed_noop ==
    /\ _state' = IF _state = HALF_OPEN THEN CLOSED ELSE _state
    /\ _failure_count' = IF _state = HALF_OPEN THEN 0 ELSE _failure_count
    /\ _last_failure_time' = IF _state = HALF_OPEN THEN None ELSE _last_failure_time
    /\ UNCHANGED _half_open_calls

record_success ==
    /\ _state' = IF _state = HALF_OPEN THEN CLOSED ELSE _state
    /\ _failure_count' = IF _state \in {HALF_OPEN, CLOSED} THEN 0 ELSE _failure_count
    /\ _last_failure_time' = IF _state = HALF_OPEN THEN None ELSE _last_failure_time
    /\ UNCHANGED _half_open_calls

\* (mutation) the threshold comparison off by one
threshold_reached_strict(count) == count > failure_threshold

\* record_failure's CLOSED branch: the count that opens the circuit
threshold_reached(count) == count >= failure_threshold

\* (mutation) a HALF_OPEN failure does not reopen the circuit
record_failure_closed_only ==
    /\ _failure_count' = _failure_count + 1
    /\ _last_failure_time' = now
    /\ _state' = IF _state = CLOSED /\ threshold_reached(_failure_count + 1) THEN OPEN
                 ELSE _state
    /\ UNCHANGED _half_open_calls

record_failure ==
    /\ _failure_count' = _failure_count + 1
    /\ _last_failure_time' = now
    /\ _state' = IF _state = HALF_OPEN THEN OPEN
                 ELSE IF _state = CLOSED /\ threshold_reached(_failure_count + 1) THEN OPEN
                 ELSE _state
    /\ UNCHANGED _half_open_calls

\* (mutation) a manual reset that closes the circuit but keeps the failure count
reset_keeps_count ==
    /\ _state' = CLOSED
    /\ UNCHANGED _failure_count
    /\ _last_failure_time' = None
    /\ _half_open_calls' = 0

reset ==
    /\ _state' = CLOSED
    /\ _failure_count' = 0
    /\ _last_failure_time' = None
    /\ _half_open_calls' = 0

(* ------------- one caller at a time: the breaker's operations ---------- *)

\* the state of the parts of the program a breaker called by one caller does not run
Idle ==
    /\ pc = [t \in Threads |-> "idle"]
    /\ loc = [t \in Threads |-> 0]
    /\ cgrants = 0
    /\ failsDone = 0
    /\ onlyFailures = TRUE
    /\ ncalls = 0

\* no wrapped function is being called
NoCall ==
    /\ max_attempts = 3 /\ base_delay = 1 /\ max_delay = 30 /\ exponential_base = 2
    /\ jitter = TRUE /\ exceptions = {} /\ on_retry = "none"
    /\ attempt = 1 /\ rpc = "done" /\ last_exception = [kind |-> "none", id |-> 0]
    /\ events = <<>> /\ outcome = [type |-> "none"]

\* no job is registered or run
NoJobs ==
    /\ _jobs = {} /\ _db_start_callback = FALSE /\ _db_complete_callback = FALSE
    /\ running = [r \in Runners |-> [pc |-> "idle"]]
    /\ last = [job |-> "none"] /\ nruns = 0 /\ failed_before = FALSE

\* no scheduler is constructed
NoScheduler ==
    /\ jobs_config = <<>> /\ APSCHEDULER_AVAILABLE = TRUE /\ enabled = FALSE
    /\ _scheduler = None /\ _running = FALSE /\ jobstore = {}
    /\ nstarts = 0 /\ last_start = [ret |-> "none", how |-> "none"]

\* no function wrapped with a breaker is being called
NoWrapper ==
    /\ name = "test" /\ wrapped_by = "none" /\ icalls = 0
    /\ entry = [state |-> CLOSED, count |-> 0, rejecting |-> FALSE]

\* the channel names the router knows
ChannelNames == {"telegram", "slack"}

\* no router is constructed and nothing is sent
NoRouter ==
    /\ channels = [c \in ChannelNames |-> [registered |-> FALSE, enabled |-> FALSE, credential |-> FALSE]]
    /\ routing = [urgent |-> <<"telegram">>, digest |-> <<"slack">>, info |-> <<"slack">>]
    /\ db_callback = FALSE
    /\ npc = "idle" /\ send_priority = "info" /\ ci = 1 /\ sent = <<>> /\ nlog = <<>>
    /\ last_send = [priority |-> "none"] /\ direct = [channel |-> "none"]
    /\ net_streak = [c \in ChannelNames |-> 0] /\ nsends = 0

\* no fetcher is constructed
NoFetch ==
    /\ accounts = <<>> /\ db_store = FALSE
    /\ fpc = "idle" /\ ai = 1 /\ inboxes = <<>> /\ errors = <<>>
    /\ total_attachments = 0 /\ total_pdfs = 0
    /\ inbox = [account |-> 0] /\ mail = None /\ step = 1
    /\ session = [account |-> 0] /\ sessions = <<>>
    /\ fetch_result = [returned |-> FALSE]

\* no message is fetched
NoMessages ==
    /\ extract_pdfs = TRUE /\ db_attachment = FALSE
    /\ mpc = "idle" /\ message_ids = 0 /\ extract_attachments = TRUE /\ mi = 0
    /\ messages = <<>> /\ attachment_count = 0 /\ pdf_count = 0 /\ att_stored = 0
    /\ last_message = [id |-> 0]

\* Optional[date] = None
NoDate == [year |-> 0, month |-> 0, day |-> 0]

\* LetterAnalysis(): the defaults of the dataclass
LetterAnalysis ==
    [dates |-> <<>>, action_triggers |-> {}, suggested_urgency |-> "low",
     has_deadline |-> FALSE, has_payment |-> FALSE, earliest_date |-> NoDate]

\* no letter is parsed
NoLetter ==
    /\ today = NoDate /\ lop = "idle"
    /\ letter = [exprs |-> <<>>, phrases |-> {}]
    /\ analysis = LetterAnalysis

\* no notification is sent, no inbox is fetched and no letter is parsed
NoMail == NoRouter /\ NoFetch /\ NoMessages /\ NoLetter

\* the rest of the program is not running
Elsewhere == NoWrapper /\ NoJobs /\ NoScheduler /\ NoMail

\* a breaker as constructed, nothing observed yet
New ==
    /\ _state = CLOSED
    /\ _failure_count = 0
    /\ _last_failure_time = None
    /\ _half_open_calls = 0
    /\ now = 0
    /\ lastOp = "init" /\ ret = "None" /\ streak = 0 /\ base = CLOSED
    /\ baseFrom = "init" /\ prev = CLOSED /\ peak = 0 /\ grants = 0

Bool(b) == IF b THEN "True" ELSE "False"

Init ==
    /\ failure_threshold \in 1..MaxThreshold
    /\ reset_timeout_seconds \in 0..MaxTimeout
    /\ half_open_max_calls \in 1..MaxProbes
    /\ New
    /\ Idle
    /\ NoCall
    /\ Elsewhere

QueryState ==
    /\ state
    /\ lastOp' = "state"
    /\ ret' = _state'
    /\ grants' = IF state_transitions THEN 0 ELSE grants
    /\ prev' = _state
    /\ UNCHANGED <<concVars, retryVars, moreVars, cfgVars, now, streak, base, baseFrom, peak>>

AllowRequest ==
    /\ allow_request
    /\ lastOp' = "allow_request"
    /\ ret' = Bool(allow_result(_state', IF state_transitions THEN 0 ELSE _half_open_calls))
    /\ grants' = (IF state_transitions THEN 0 ELSE grants)
                 + (IF _state' = HALF_OPEN /\ ret' = "True" THEN 1 ELSE 0)
    /\ prev' = _state
    /\ UNCHANGED <<concVars, retryVars, moreVars, cfgVars, now, streak, base, baseFrom, peak>>

RecordSuccess ==
    /\ record_success
    /\ lastOp' = "record_success"
    /\ ret' = "None"
    /\ streak' = 0
    /\ base' = _state'
    /\ baseFrom' = _state
    /\ prev' = _state
    /\ UNCHANGED <<concVars, retryVars, moreVars, cfgVars, now, peak, grants>>

RecordFailure ==
    /\ _failure_count < MaxFailures
    /\ record_failure
    /\ lastOp' = "record_failure"
    /\ ret' = "None"
    /\ streak' = streak + 1
    /\ peak' = IF streak + 1 > peak THEN streak + 1 ELSE peak
    /\ prev' = _state
    /\ UNCHANGED <<concVars, retryVars, moreVars, cfgVars, now, base, baseFrom, grants>>

Reset ==
    /\ reset
    /\ lastOp' = "reset"
    /\ ret' = "None"
    /\ streak' = 0
    /\ base' = _state'
    /\ baseFrom' = "reset"
    /\ prev' = _state
    /\ UNCHANGED <<concVars, retryVars, moreVars, cfgVars, now, peak, grants>>

\* time passes between calls
Tick ==
    /\ now < MaxTime
    /\ now' = now + 1
    /\ lastOp' = "tick"
    /\ prev' = _state
    /\ UNCHANGED <<concVars, retryVars, moreVars, cfgVars, cbVars, ret, streak, base, baseFrom, peak, grants>>

Next ==
    \/ QueryState
    \/ AllowRequest
    \/ RecordSuccess
    \/ RecordFailure
    \/ Reset
    \/ Tick

Spec == Init /\ [][Next]_vars

(* ---------------- concurrent callers of one breaker -------------------- *)
(* CircuitBreaker takes no lock: each method runs statement by statement,   *)
(* and an augmented assignment (x += 1) is a load followed by a store.      *)

InitConc ==
    /\ failure_threshold \in 1..MaxThreshold
    /\ reset_timeout_seconds \in 0..MaxTimeout
    /\ half_open_max_calls \in 1..MaxProbes
    /\ New
    /\ Idle
    /\ NoCall
    /\ Elsewhere

FailureLabels == {"f1", "f2", "f3", "f4", "f5", "f6"}

\* caller t moves from statement `from` to statement `to`
Goto(t, from, to) == pc[t] = from /\ pc' = [pc EXCEPT ![t] = to]

CallAllowRequest(t) ==
    /\ ncalls < MaxCalls
    /\ Goto(t, "idle", "a1")
    /\ ncalls' = ncalls + 1
    /\ onlyFailures' = FALSE
    /\ failsDone' = 0
    /\ UNCHANGED <<cfgVars, cbVars, now, obsVars, retryVars, moreVars, loc, cgrants>>

\* state, line 82: if self._state == CircuitState.OPEN
A1(t) ==
    /\ pc[t] = "a1"
    /\ pc' = [pc EXCEPT ![t] = IF _state = OPEN THEN "a2" ELSE "a5"]
    /\ UNCHANGED <<cfgVars, cbVars, now, obsVars, retryVars, moreVars, ncalls, loc, cgrants, failsDone, onlyFailures>>

\* state, line 83: if self._should_attempt_reset()
A2(t) ==
    /\ pc[t] = "a2"
    /\ pc' = [pc EXCEPT ![t] = IF _should_attempt_reset THEN "a3" ELSE "a5"]
    /\ UNCHANGED <<cfgVars, cbVars, now, obsVars, retryVars, moreVars, ncalls, loc, cgrants, failsDone, onlyFailures>>

\* state, line 84: self._state = CircuitState.HALF_OPEN
A3(t) ==
    /\ Goto(t, "a3", "a4")
    /\ _state' = HALF_OPEN
    /\ cgrants' = IF _state = HALF_OPEN THEN cgrants ELSE 0
    /\ UNCHANGED <<cfgVars, _failure_count, _last_failure_time, _half_open_calls, now,
                   obsVars, retryVars, moreVars, ncalls, loc, failsDone, onlyFailures>>

\* state, line 85: self._half_open_calls = 0
A4(t) ==
    /\ Goto(t, "a4", "a5")
    /\ _half_open_calls' = 0
    /\ UNCHANGED <<cfgVars, _state, _failure_count, _last_failure_time, now,
                   obsVars, retryVars, moreVars, ncalls, loc, cgrants, failsDone, onlyFailures>>

\* state, line 87: return self._state; allow_request, lines 100-110: the branch on it
A5(t) ==
    /\ pc[t] = "a5"
    /\ pc' = [pc EXCEPT ![t] = IF _state = HALF_OPEN THEN "a6" ELSE "idle"]
    /\ UNCHANGED <<cfgVars, cbVars, now, obsVars, retryVars, moreVars, ncalls, loc, cgrants, failsDone, onlyFailures>>

\* allow_request, line 104: if self._half_open_calls < self.half_open_max_calls
A6(t) ==
    /\ pc[t] = "a6"
    /\ pc' = [pc EXCEPT ![t] = IF probe_allowed(_half_open_calls) THEN "a7" ELSE "idle"]
    /\ UNCHANGED <<cfgVars, cbVars, now, obsVars, retryVars, moreVars, ncalls, loc, cgrants, failsDone, onlyFailures>>

\* allow_request, line 105: self._half_open_calls += 1, the load
A7(t) ==
    /\ Goto(t, "a7", "a8")
    /\ loc' = [loc EXCEPT ![t] = _half_open_calls]
    /\ UNCHANGED <<cfgVars, cbVars, now, obsVars, retryVars, moreVars, ncalls, cgrants, failsDone, onlyFailures>>

\* allow_request, line 105: the store; line 106: return True
A8(t) ==
    /\ Goto(t, "a8", "idle")
    /\ _half_open_calls' = loc[t] + 1
    /\ cgrants' = cgrants + 1
    /\ UNCHANGED <<cfgVars, _state, _failure_count, _last_failure_time, now,
                   obsVars, retryVars, moreVars, ncalls, loc, failsDone, onlyFailures>>

\* the count of returned record_failure() ncalls, kept while no other call was begun
Returned(n) == IF onlyFailures THEN n + 1 ELSE n

CallRecordFailure(t) ==
    /\ _failure_count + Cardinality({u \in Threads : pc[u] \in FailureLabels}) < MaxFailures
    /\ ncalls < MaxCalls
    /\ Goto(t, "idle", "f1")
    /\ ncalls' = ncalls + 1
    /\ UNCHANGED <<cfgVars, cbVars, now, obsVars, retryVars, moreVars, loc, cgrants, failsDone, onlyFailures>>

\* record_failure, line 127: self._failure_count += 1, the load
F1(t) ==
    /\ Goto(t, "f1", "f2")
    /\ loc' = [loc EXCEPT ![t] = _failure_count]
    /\ UNCHANGED <<cfgVars, cbVars, now, obsVars, retryVars, moreVars, ncalls, cgrants, failsDone, onlyFailures>>

\* record_failure, line 127: the store
F2(t) ==
    /\ Goto(t, "f2", "f3")
    /\ _failure_count' = loc[t] + 1
    /\ UNCHANGED <<cfgVars, _state, _last_failure_time, _half_open_calls, now,
                   obsVars, retryVars, moreVars, ncalls, loc, cgrants, failsDone, onlyFailures>>

\* record_failure, line 128: self._last_failure_time = datetime.now()
F3(t) ==
    /\ Goto(t, "f3", "f4")
    /\ _last_failure_time' = now
    /\ UNCHANGED <<cfgVars, _state, _failure_count, _half_open_calls, now,
                   obsVars, retryVars, moreVars, ncalls, loc, cgrants, failsDone, onlyFailures>>

\* record_failure, lines 130 and 135: the branch on self._state
F4(t) ==
    /\ pc[t] = "f4"
    /\ pc' = [pc EXCEPT ![t] = IF _state = HALF_OPEN THEN "f5"
                                ELSE IF _state = CLOSED THEN "f6" ELSE "idle"]
    /\ failsDone' = IF _state = OPEN THEN Returned(failsDone) ELSE failsDone
    /\ UNCHANGED <<cfgVars, cbVars, now, obsVars, retryVars, moreVars, ncalls, loc, cgrants, onlyFailures>>

\* record_failure, lines 133 and 141: self._state = CircuitState.OPEN
F5(t) ==
    /\ Goto(t, "f5", "idle")
    /\ _state' = OPEN
    /\ failsDone' = Returned(failsDone)
    /\ UNCHANGED <<cfgVars, _failure_count, _last_failure_time, _half_open_calls, now,
                   obsVars, retryVars, moreVars, ncalls, loc, cgrants, onlyFailures>>

\* record_failure, line 136: if self._failure_count >= self.failure_threshold
F6(t) ==
    /\ pc[t] = "f6"
    /\ pc' = [pc EXCEPT ![t] = IF threshold_reached(_failure_count) THEN "f5" ELSE "idle"]
    /\ failsDone' = IF threshold_reached(_failure_count) THEN failsDone ELSE Returned(failsDone)
    /\ UNCHANGED <<cfgVars, cbVars, now, obsVars, retryVars, moreVars, ncalls, loc, cgrants, onlyFailures>>

CallRecordSuccess(t) ==
    /\ ncalls < MaxCalls
    /\ Goto(t, "idle", "s1")
    /\ ncalls' = ncalls + 1
    /\ onlyFailures' = FALSE
    /\ failsDone' = 0
    /\ UNCHANGED <<cfgVars, cbVars, now, obsVars, retryVars, moreVars, loc, cgrants>>

\* record_success, line 114: if self._state == CircuitState.HALF_OPEN
S1(t) ==
    /\ pc[t] = "s1"
    /\ pc' = [pc EXCEPT ![t] = IF _state = HALF_OPEN THEN "s2" ELSE "s5"]
    /\ UNCHANGED <<cfgVars, cbVars, now, obsVars, retryVars, moreVars, ncalls, loc, cgrants, failsDone, onlyFailures>>

\* record_success, line 117: self._state = CircuitState.CLOSED
S2(t) ==
    /\ Goto(t, "s2", "s3")
    /\ _state' = CLOSED
    /\ UNCHANGED <<cfgVars, _failure_count, _last_failure_time, _half_open_calls, now,
                   obsVars, retryVars, moreVars, ncalls, loc, cgrants, failsDone, onlyFailures>>

\* record_success, line 118: self._failure_count = 0
S3(t) ==
    /\ Goto(t, "s3", "s4")
    /\ _failure_count' = 0
    /\ UNCHANGED <<cfgVars, _state, _last_failure_time, _half_open_calls, now,
                   obsVars, retryVars, moreVars, ncalls, loc, cgrants, failsDone, onlyFailures>>

\* record_success, line 119: self._last_failure_time = None
S4(t) ==
    /\ Goto(t, "s4", "idle")
    /\ _last_failure_time' = None
    /\ UNCHANGED <<cfgVars, _state, _failure_count, _half_open_calls, now,
                   obsVars, retryVars, moreVars, ncalls, loc, cgrants, failsDone, onlyFailures>>

\* record_success, line 121: elif self._state == CircuitState.CLOSED
S5(t) ==
    /\ pc[t] = "s5"
    /\ pc' = [pc EXCEPT ![t] = IF _state = CLOSED THEN "s6" ELSE "idle"]
    /\ UNCHANGED <<cfgVars, cbVars, now, obsVars, retryVars, moreVars, ncalls, loc, cgrants, failsDone, onlyFailures>>

\* record_success, line 123: self._failure_count = 0
S6(t) ==
    /\ Goto(t, "s6", "idle")
    /\ _failure_count' = 0
    /\ UNCHANGED <<cfgVars, _state, _last_failure_time, _half_open_calls, now,
                   obsVars, retryVars, moreVars, ncalls, loc, cgrants, failsDone, onlyFailures>>

\* time passes while the callers run
TickConc ==
    /\ now < MaxTime
    /\ now' = now + 1
    /\ UNCHANGED <<cfgVars, cbVars, obsVars, retryVars, moreVars, concVars>>

NextConc ==
    \/ \E t \in Threads : CallAllowRequest(t)
    \/ \E t \in Threads : A1(t)
    \/ \E t \in Threads : A2(t)
    \/ \E t \in Threads : A3(t)
    \/ \E t \in Threads : A4(t)
    \/ \E t \in Threads : A5(t)
    \/ \E t \in Threads : A6(t)
    \/ \E t \in Threads : A7(t)
    \/ \E t \in Threads : A8(t)
    \/ \E t \in Threads : CallRecordFailure(t)
    \/ \E t \in Threads : F1(t)
    \/ \E t \in Threads : F2(t)
    \/ \E t \in Threads : F3(t)
    \/ \E t \in Threads : F4(t)
    \/ \E t \in Threads : F5(t)
    \/ \E t \in Threads : F6(t)
    \/ \E t \in Threads : CallRecordSuccess(t)
    \/ \E t \in Threads : S1(t)
    \/ \E t \in Threads : S2(t)
    \/ \E t \in Threads : S3(t)
    \/ \E t \in Threads : S4(t)
    \/ \E t \in Threads : S5(t)
    \/ \E t \in Threads : S6(t)
    \/ TickConc

SpecConc == InitConc /\ [][NextConc]_vars

(* ------------------------------- retry --------------------------------- *)
(* One call of a function wrapped by retry(...). The wrapped function's     *)
(* outcome at each invocation is chosen freely: it returns, or raises a     *)
(* failure of some kind. A failure is the pair of its kind and of the       *)
(* invocation that raised it (which stands for its message and identity).   *)

\* kinds of failure the wrapped function raises
Kinds == {"ValueError", "TypeError"}

\* the failure raised by invocation n
Failure(kind, n) == [kind |-> kind, id |-> n]

\* what a raising on_retry callback raises
CallbackError(n) == [kind |-> "CallbackError", id |-> n]

NoOutcome == [type |-> "none"]
Returned_(n) == [type |-> "return", value |-> n]
Raised(e) == [type |-> "raise", exc |-> e]

InitRetry ==
    /\ failure_threshold = 5 /\ reset_timeout_seconds = 60 /\ half_open_max_calls = 1
    /\ New
    /\ Idle
    /\ max_attempts \in 1..MaxAttempts
    /\ base_delay \in 1..MaxBaseDelay
    /\ max_delay \in 1..MaxMaxDelay
    /\ exponential_base \in 1..MaxExpBase
    /\ jitter \in BOOLEAN
    /\ exceptions \in SUBSET Kinds
    /\ on_retry \in {"none", "returns", "raises"}
    /\ attempt = 1
    /\ rpc = "call"
    /\ last_exception = Failure("none", 0)
    /\ events = <<>>
    /\ outcome = NoOutcome
    /\ Elsewhere

RECURSIVE Pow(_, _)
Pow(b, n) == IF n = 0 THEN 1 ELSE b * Pow(b, n - 1)

Min(a, b) == IF a <= b THEN a ELSE b

\* (mutation) the exponent of the docstring: base_delay * base^attempt
backoff_by_attempt(a) == Min(base_delay * Pow(exponential_base, a), max_delay)

\* lines 225-228: the delay after failed attempt a, before jitter
backoff(a) == Min(base_delay * Pow(exponential_base, a - 1), max_delay)

\* lines 231-232: delay * (0.5 + random.random() * 0.5), to whole ticks
jittered(d) == IF jitter THEN {j \in 0..d : d <= 2 * j} ELSE {d}

\* invocations of the wrapped function so far
Invocations == {i \in DOMAIN events : events[i].type = "call"}
NumCalls == Cardinality(Invocations)
NumSleeps == Cardinality({i \in DOMAIN events : events[i].type = "sleep"})
NumOnRetry == Cardinality({i \in DOMAIN events : events[i].type = "on_retry"})

\* (mutation) the except clause catches every failure
caught_any(kind) == TRUE

\* line 214: except exceptions as e
caught(kind) == kind \in exceptions

\* (mutation) the last attempt recognised one attempt early
final_attempt_off_by_one(a) == a + 1 >= max_attempts

\* line 217: if attempt == max_attempts
final_attempt(a) == a = max_attempts

\* (mutation) the sleep first, then the callback
retry_steps_sleep_first(e, a, d) ==
    <<[type |-> "sleep", delay |-> d, attempt |-> a]>>
    \o (IF on_retry = "none" THEN <<>> ELSE <<[type |-> "on_retry", exc |-> e, attempt |-> a]>>)

\* lines 239-242: the callback, if any, then the sleep
retry_steps(e, a, d) ==
    (IF on_retry = "none" THEN <<>> ELSE <<[type |-> "on_retry", exc |-> e, attempt |-> a]>>)
    \o <<[type |-> "sleep", delay |-> d, attempt |-> a]>>

\* what a call of the wrapper leaves alone: the decorator's arguments, and no breaker is involved
outside == <<cfgVars, cbVars, now, obsVars, concVars, retryCfg, moreVars>>

\* line 213: return func(*args, **kwargs), the function returns
InvokeReturns ==
    /\ rpc = "call"
    /\ events' = Append(events, [type |-> "call", attempt |-> attempt, res |-> "ok"])
    /\ outcome' = Returned_(NumCalls + 1)
    /\ rpc' = "done"
    /\ UNCHANGED <<attempt, last_exception>>
    /\ UNCHANGED outside

\* lines 213-215: the function raises a failure the except clause catches
InvokeRaisesCaught ==
    /\ rpc = "call"
    /\ \E kind \in Kinds :
        /\ caught(kind)
        /\ events' = Append(events, [type |-> "call", attempt |-> attempt, res |-> kind])
        /\ last_exception' = Failure(kind, NumCalls + 1)
    /\ rpc' = "except"
    /\ UNCHANGED <<attempt, outcome>>
    /\ UNCHANGED outside

\* line 213: the function raises a failure the except clause does not catch
InvokeRaisesOther ==
    /\ rpc = "call"
    /\ \E kind \in Kinds :
        /\ ~caught(kind)
        /\ events' = Append(events, [type |-> "call", attempt |-> attempt, res |-> kind])
        /\ outcome' = Raised(Failure(kind, NumCalls + 1))
    /\ rpc' = "done"
    /\ UNCHANGED <<attempt, last_exception>>
    /\ UNCHANGED outside

\* lines 217-222: the last attempt failed, raise
FinalAttemptFailed ==
    /\ rpc = "except"
    /\ final_attempt(attempt)
    /\ outcome' = Raised(last_exception)
    /\ rpc' = "done"
    /\ UNCHANGED <<attempt, last_exception, events>>
    /\ UNCHANGED outside

\* lines 224-242: delay, on_retry, sleep, next attempt
RetryAfterDelay ==
    /\ rpc = "except"
    /\ ~final_attempt(attempt)
    /\ on_retry # "raises"
    /\ \E d \in jittered(backoff(attempt)) :
        events' = events \o retry_steps(last_exception, attempt, d)
    /\ attempt' = attempt + 1
    /\ rpc' = "call"
    /\ UNCHANGED <<last_exception, outcome>>
    /\ UNCHANGED outside

\* lines 239-240: on_retry raises, and its failure leaves the wrapper
OnRetryRaises ==
    /\ rpc = "except"
    /\ ~final_attempt(attempt)
    /\ on_retry = "raises"
    /\ events' = Append(events, [type |-> "on_retry", exc |-> last_exception, attempt |-> attempt])
    /\ outcome' = Raised(CallbackError(attempt))
    /\ rpc' = "done"
    /\ UNCHANGED <<attempt, last_exception>>
    /\ UNCHANGED outside

NextRetry ==
    \/ InvokeReturns
    \/ InvokeRaisesCaught
    \/ InvokeRaisesOther
    \/ FinalAttemptFailed
    \/ RetryAfterDelay
    \/ OnRetryRaises

SpecRetry == InitRetry /\ [][NextRetry]_vars

(* ------------- retry_with_circuit_breaker and protect ------------------ *)
(* Calls, one after the other, of functions wrapped around one breaker by   *)
(* retry_with_circuit_breaker(...) or by CircuitBreaker.protect. The trace  *)
(* of a call is kept in events: allow (an allow_request() and its answer),  *)
(* call, record_success, record_failure, sleep. A tick is a second: the     *)
(* statements of the wrapper between record_failure() and allow_request()   *)
(* take less than that.                                                     *)

Wrappers == {"retry_with_circuit_breaker", "protect"}

\* breakers are constructed with the name of their service
Names == {"todoist", "telegram"}

\* class CircuitBreakerError
CircuitBreakerError(service_name, reset_time) ==
    [type |-> "CircuitBreakerError", service_name |-> service_name, reset_time |-> reset_time]

\* get_reset_time, on the breaker's fields st and lft
get_reset_time(st, lft) ==
    IF st = OPEN /\ lft # None THEN lft + reset_timeout_seconds ELSE None

\* reset_time or datetime.now()
or_now(reset_time) == IF reset_time = None THEN now ELSE reset_time

\* what allow_request() returns when called in the current state
allowed ==
    allow_result(IF state_transitions THEN HALF_OPEN ELSE _state,
                 IF state_transitions THEN 0 ELSE _half_open_calls)

\* (mutation) the wrapper does not look at the breaker before the first attempt
circuit_open_ignored(ok) == FALSE

\* lines 285 and 163: if not circuit_breaker.allow_request()
circuit_open(ok) == ~ok

\* (mutation) the wrapper does not look at the breaker between attempts
opened_mid_retry_ignored(ok) == FALSE

\* line 307: if not circuit_breaker.allow_request()
opened_mid_retry(ok) == ~ok

\* line 296: except exceptions as e
cb_caught(kind) == kind \in exceptions

\* line 300: if attempt == max_attempts
cb_final_attempt(a) == a = max_attempts

\* line 317: min(base_delay * (2 ** (attempt - 1)), max_delay)
cb_delay(a) == Min(base_delay * Pow(2, a - 1), max_delay)

\* line 320: delay * (0.5 + random.random() * 0.5), to whole ticks
cb_jittered(d) == {j \in 0..d : d <= 2 * j}

InitInvoker ==
    /\ failure_threshold \in 1..MaxThreshold
    /\ reset_timeout_seconds \in 0..MaxTimeout
    /\ half_open_max_calls = 1
    /\ New
    /\ Idle
    /\ max_attempts \in 1..MaxAttempts
    /\ base_delay = 1
    /\ max_delay = 30
    /\ exponential_base = 2
    /\ jitter = TRUE
    /\ exceptions \in SUBSET Kinds
    /\ on_retry = "none"
    /\ attempt = 1
    /\ rpc = "done"
    /\ last_exception = Failure("none", 0)
    /\ events = <<>>
    /\ outcome = NoOutcome
    /\ name \in Names
    /\ wrapped_by = "none"
    /\ entry = [state |-> CLOSED, count |-> 0, rejecting |-> FALSE]
    /\ icalls = 0
    /\ NoJobs
    /\ NoScheduler
    /\ NoMail

\* what a call of a wrapper leaves alone
outsideInvoker == <<cfgVars, obsVars, concVars, retryCfg, name, restVars>>

\* the wrapper is called: what it remembers of the breaker it finds
Enter(w) ==
    /\ rpc = "done"
    /\ icalls < MaxWrapperCalls
    /\ icalls' = icalls + 1
    /\ wrapped_by' = w
    /\ entry' = [state |-> _state, count |-> _failure_count,
                 rejecting |-> _state = OPEN /\ ~_should_attempt_reset]
    /\ attempt' = 1
    /\ last_exception' = Failure("none", 0)

\* lines 285, 290-291 (protect: 160): the breaker allows the request, first attempt
CallAllowed ==
    /\ \E w \in Wrappers : Enter(w)
    /\ ~circuit_open(allowed)
    /\ allow_request
    /\ events' = <<[type |-> "allow", res |-> allowed]>>
    /\ outcome' = NoOutcome
    /\ rpc' = "call"
    /\ UNCHANGED <<now, outsideInvoker>>

\* lines 285-288 (protect: 160-162): the breaker rejects the request
CallRejected ==
    /\ \E w \in Wrappers : Enter(w)
    /\ circuit_open(allowed)
    /\ allow_request
    /\ events' = <<[type |-> "allow", res |-> allowed]>>
    /\ outcome' = CircuitBreakerError(name, or_now(get_reset_time(_state', _last_failure_time')))
    /\ rpc' = "done"
    /\ UNCHANGED <<now, outsideInvoker>>

\* lines 293-295 (protect: 164-167): the function returns
FuncReturns ==
    /\ rpc = "call"
    /\ record_success
    /\ events' = events \o <<[type |-> "call", attempt |-> attempt, res |-> "ok"],
                             [type |-> "record_success"]>>
    /\ outcome' = Returned_(NumCalls + 1)
    /\ rpc' = "done"
    /\ UNCHANGED <<attempt, last_exception, now, wrapped_by, entry, icalls, outsideInvoker>>

\* protect, lines 164-170: the function raises, except Exception
ProtectRaises ==
    /\ rpc = "call"
    /\ wrapped_by = "protect"
    /\ record_failure
    /\ \E kind \in Kinds :
        /\ events' = events \o <<[type |-> "call", attempt |-> attempt, res |-> kind],
                                 [type |-> "record_failure"]>>
        /\ outcome' = Raised(Failure(kind, NumCalls + 1))
    /\ rpc' = "done"
    /\ UNCHANGED <<attempt, last_exception, now, wrapped_by, entry, icalls, outsideInvoker>>

\* lines 293-298: the function raises a failure the except clause catches
RetryCaught ==
    /\ rpc = "call"
    /\ wrapped_by = "retry_with_circuit_breaker"
    /\ record_failure
    /\ \E kind \in Kinds :
        /\ cb_caught(kind)
        /\ events' = events \o <<[type |-> "call", attempt |-> attempt, res |-> kind],
                                 [type |-> "record_failure"]>>
        /\ last_exception' = Failure(kind, NumCalls + 1)
    /\ rpc' = "except"
    /\ UNCHANGED <<attempt, outcome, now, wrapped_by, entry, icalls, outsideInvoker>>

\* line 293: the function raises a failure the except clause does not catch
RetryOther ==
    /\ rpc = "call"
    /\ wrapped_by = "retry_with_circuit_breaker"
    /\ \E kind \in Kinds :
        /\ ~cb_caught(kind)
        /\ events' = Append(events, [type |-> "call", attempt |-> attempt, res |-> kind])
        /\ outcome' = Raised(Failure(kind, NumCalls + 1))
    /\ rpc' = "done"
    /\ UNCHANGED <<attempt, last_exception, cbVars, now, wrapped_by, entry, icalls, outsideInvoker>>

\* lines 300-304: the last attempt failed, raise
LastAttemptFailed ==
    /\ rpc = "except"
    /\ cb_final_attempt(attempt)
    /\ outcome' = Raised(last_exception)
    /\ rpc' = "done"
    /\ UNCHANGED <<attempt, last_exception, events, cbVars, now, wrapped_by, entry, icalls,
                   outsideInvoker>>

\* lines 307-314: the circuit opened, no more attempts
RetryRejected ==
    /\ rpc = "except"
    /\ ~cb_final_attempt(attempt)
    /\ opened_mid_retry(allowed)
    /\ allow_request
    /\ events' = Append(events, [type |-> "allow", res |-> allowed])
    /\ outcome' = CircuitBreakerError(name, or_now(get_reset_time(_state', _last_failure_time')))
    /\ rpc' = "done"
    /\ UNCHANGED <<attempt, last_exception, now, wrapped_by, entry, icalls, outsideInvoker>>

\* lines 307, 316-324: the breaker still allows requests: delay, sleep, next attempt
RetrySleeps ==
    /\ rpc = "except"
    /\ ~cb_final_attempt(attempt)
    /\ ~opened_mid_retry(allowed)
    /\ allow_request
    /\ \E d \in cb_jittered(cb_delay(attempt)) :
        /\ events' = events \o <<[type |-> "allow", res |-> allowed],
                                 [type |-> "sleep", delay |-> d, attempt |-> attempt]>>
        /\ now' = now + d
    /\ attempt' = attempt + 1
    /\ rpc' = "call"
    /\ UNCHANGED <<last_exception, outcome, wrapped_by, entry, icalls, outsideInvoker>>

\* time passes, between calls of a wrapper and while the function runs
TickInvoker ==
    /\ now < MaxTime
    /\ rpc # "except"
    /\ now' = now + 1
    /\ UNCHANGED <<cbVars, retryVars, invVars, cfgVars, obsVars, concVars, restVars>>

NextInvoker ==
    \/ CallAllowed
    \/ CallRejected
    \/ FuncReturns
    \/ ProtectRaises
    \/ RetryCaught
    \/ RetryOther
    \/ LastAttemptFailed
    \/ RetryRejected
    \/ RetrySleeps
    \/ TickInvoker

SpecInvoker == InitInvoker /\ [][NextInvoker]_vars

(* ---------------------------- JobRegistry ------------------------------ *)
(* run_job called by the scheduler's worker threads (trigger "scheduled")   *)
(* and by a request thread through run_job_now (trigger "manual"). A run is *)
(* two steps, before and after the time the job's closure takes; its log    *)
(* holds, in order, the calls it made: start_cb, closure_start,             *)
(* closure_end, complete_cb.                                                *)

\* the jobs server.py registers
JobIds == {"inbox_digest", "school_email"}

TriggerOf(r) == IF r = "http" THEN "manual" ELSE "scheduled"

\* what a job's closure does: returns a dict (success True, no success key, success
\* False with an error), returns something that is not a dict, or raises
Behaviours == {"ok", "no_flag", "failed", "not_dict", "raises"}

\* what the job-started callback does: returns a run id, returns None, raises
StartOutcomes == {"returns", "returns_none", "raises"}

\* what the job-completed callback does
CompleteOutcomes == {"returns", "raises"}

NoError == <<>>

\* the dict a closure returns
closure_dict(b) ==
    CASE b = "ok" -> [success |-> "True", error |-> NoError]
      [] b = "no_flag" -> [success |-> "absent", error |-> NoError]
      [] b = "failed" -> [success |-> "False", error |-> <<"job error">>]

\* str(e) for the exception the try block raised: the closure's, or the AttributeError
\* of result.get on something that is not a dict
exception_text(b) == IF b = "raises" THEN <<"closure error">> ELSE <<"no attribute get">>

\* whether the try block of run_job raises
try_raises(b) == b \in {"raises", "not_dict"}

\* (mutation) a failure of the closure leaves run_job
job_result_propagating(b) ==
    IF try_raises(b) THEN [success |-> "raised", error |-> exception_text(b)]
    ELSE closure_dict(b)

\* lines 89-102: the result run_job returns (without duration_seconds)
job_result(b) ==
    IF try_raises(b) THEN [success |-> "False", error |-> exception_text(b)]
    ELSE closure_dict(b)

\* lines 90, 101: status
job_status(b) ==
    IF try_raises(b) THEN "failed"
    ELSE IF closure_dict(b).success \in {"True", "absent"} THEN "success" ELSE "failed"

\* lines 91, 102: error
job_error(b) == IF try_raises(b) THEN exception_text(b) ELSE closure_dict(b).error

\* line 76: the result for a job id that is not registered
unknown_job(job_id) == [success |-> "False", error |-> <<"Unknown job", job_id>>]

\* (mutation) the lookup finds every job id
registered_any(job_id) == TRUE

\* lines 73-74: job = self._jobs.get(job_id); if not job
registered(job_id) == job_id \in _jobs

\* (mutation) a job-started callback that raised leaves a run id behind
start_run_id_after_raise(s, id) == IF s = "returns_none" THEN None ELSE id

\* lines 79-84: run_id, given what the job-started callback did
start_run_id(s, id) == IF s = "returns" THEN id ELSE None

\* (mutation) the job-completed callback is called whatever run_id is
tracked_always(run_id) == _db_complete_callback

\* line 104: if run_id and self._db_complete_callback
tracked(run_id) == run_id # None /\ _db_complete_callback

\* (mutation) a failure of the job-completed callback leaves run_job
complete_failure_propagates(c, result) ==
    IF c = "raises" THEN [success |-> "raised", error |-> <<"callback error">>] ELSE result

\* lines 105-108: a failure of the job-completed callback is logged; run_job returns result
complete_failure_logged(c, result) == result

\* (mutation) every fire starts a run
may_fire_always(job_id) == TRUE

\* scheduler.py line 76, max_instances: a fire of a job starts a run unless that many
\* scheduled runs of the job are in progress
may_fire(job_id) ==
    Cardinality({r \in Runners : /\ running[r].pc = "closure"
                                 /\ running[r].job = job_id
                                 /\ running[r].trigger = "scheduled"}) < max_instances

IdleRun == [pc |-> "idle", job |-> "none", trigger |-> "none", run_id |-> None, log |-> <<>>]

NoRun == [runner |-> "none", job |-> "none", trigger |-> "none", known |-> FALSE,
          behaviour |-> "none", status |-> "none", log |-> <<>>,
          result |-> [success |-> "none", error |-> NoError], after_failure |-> FALSE]

InitJobs ==
    /\ failure_threshold = 5 /\ reset_timeout_seconds = 60 /\ half_open_max_calls = 1
    /\ New
    /\ Idle
    /\ NoCall
    /\ NoWrapper
    /\ _jobs \in SUBSET JobIds
    /\ _db_start_callback = FALSE
    /\ _db_complete_callback = FALSE
    /\ running = [r \in Runners |-> IdleRun]
    /\ last = NoRun
    /\ nruns = 0
    /\ failed_before = FALSE
    /\ NoScheduler
    /\ NoMail

\* what the registry leaves alone
outsideJobs == <<cfgVars, cbVars, now, obsVars, concVars, retryVars, invVars, schedVars, mailVars>>

\* set_db_callbacks
SetDbCallbacks ==
    /\ ~_db_start_callback
    /\ _db_start_callback' = TRUE
    /\ _db_complete_callback' = TRUE
    /\ UNCHANGED <<_jobs, running, last, nruns, failed_before, outsideJobs>>

\* lines 73-76: run_job for a job id that is not registered
RunUnknown ==
    /\ nruns < MaxRuns
    /\ \E r \in Runners, job_id \in JobIds :
        /\ running[r].pc = "idle"
        /\ ~registered(job_id)
        /\ last' = [runner |-> r, job |-> job_id, trigger |-> TriggerOf(r), known |-> FALSE,
                    behaviour |-> "none", status |-> "none", log |-> <<>>,
                    result |-> unknown_job(job_id), after_failure |-> failed_before]
    /\ nruns' = nruns + 1
    /\ UNCHANGED <<_jobs, _db_start_callback, _db_complete_callback, running, failed_before,
                   outsideJobs>>

\* lines 73-89: run_job up to the call of the closure
BeginRun ==
    /\ nruns < MaxRuns
    /\ \E r \in Runners, job_id \in JobIds :
        /\ running[r].pc = "idle"
        /\ registered(job_id)
        /\ TriggerOf(r) = "scheduled" => may_fire(job_id)
        /\ \E s \in StartOutcomes :
            LET run_id == IF _db_start_callback THEN start_run_id(s, nruns + 1) ELSE None
                started == IF _db_start_callback
                           THEN <<[type |-> "start_cb", job |-> job_id,
                                   trigger |-> TriggerOf(r), did |-> s, run_id |-> run_id]>>
                           ELSE <<>>
            IN  running' = [running EXCEPT ![r] =
                    [pc |-> "closure", job |-> job_id, trigger |-> TriggerOf(r),
                     run_id |-> run_id,
                     log |-> started \o <<[type |-> "closure_start"]>>]]
    /\ nruns' = nruns + 1
    /\ UNCHANGED <<_jobs, _db_start_callback, _db_complete_callback, last, failed_before,
                   outsideJobs>>

\* lines 89-110: the closure returns or raises, the run is reported and run_job returns
EndRun ==
    /\ \E r \in Runners, b \in Behaviours :
      \E c \in IF tracked(running[r].run_id) THEN CompleteOutcomes ELSE {"returns"} :
        /\ running[r].pc = "closure"
        /\ LET run_id == running[r].run_id
               completed == IF tracked(run_id)
                            THEN <<[type |-> "complete_cb", run_id |-> run_id,
                                    status |-> job_status(b), result |-> job_result(b),
                                    error |-> job_error(b), did |-> c]>>
                            ELSE <<>>
           IN  last' = [runner |-> r, job |-> running[r].job, trigger |-> running[r].trigger,
                        known |-> TRUE, behaviour |-> b, status |-> job_status(b),
                        log |-> running[r].log \o <<[type |-> "closure_end"]>> \o completed,
                        result |-> IF tracked(run_id)
                                   THEN complete_failure_logged(c, job_result(b))
                                   ELSE job_result(b),
                        after_failure |-> failed_before]
        /\ running' = [running EXCEPT ![r] = IdleRun]
        /\ failed_before' = (failed_before \/ try_raises(b))
    /\ UNCHANGED <<_jobs, _db_start_callback, _db_complete_callback, nruns, outsideJobs>>

NextJobs ==
    \/ SetDbCallbacks
    \/ RunUnknown
    \/ BeginRun
    \/ EndRun

SpecJobs == InitJobs /\ [][NextJobs]_vars

(* --------------------------- EmailScheduler ---------------------------- *)
(* start() and stop() of a scheduler built from a configuration whose jobs  *)
(* section lists, in order, each job's enabled flag and trigger. A trigger  *)
(* configuration is one of: a cron string of 5 fields the scheduling        *)
(* library accepts ("cron"), of 5 fields it rejects ("cron_rejected"), of   *)
(* another number of fields ("cron_fields"); interval_hours;                *)
(* interval_minutes; an HH:MM time ("time"), a time that is not numeric     *)
(* ("time_text"); or no trigger key ("missing").                            *)

TriggerConfigs == {"cron", "cron_rejected", "cron_fields", "interval_hours",
                   "interval_minutes", "time", "time_text", "missing"}

JobConfigs == [job_id : JobIds, enabled : BOOLEAN, trigger : TriggerConfigs]

\* config["jobs"]: at most one entry per job id, in the order of the file
JobsSections ==
    {<<>>} \cup {<<a>> : a \in JobConfigs}
           \cup {q \in {<<a, b>> : a \in JobConfigs, b \in JobConfigs} : q[1].job_id # q[2].job_id}

\* _create_trigger: the trigger built, "None", or the ValueError that CronTrigger or
\* int() raises
_create_trigger(t) ==
    CASE t = "cron" -> "CronTrigger"
      [] t = "cron_rejected" -> "ValueError"
      [] t = "cron_fields" -> "None"
      [] t \in {"interval_hours", "interval_minutes"} -> "IntervalTrigger"
      [] t = "time" -> "CronTrigger"
      [] t = "time_text" -> "ValueError"
      [] t = "missing" -> "None"

\* the job add_job puts in the job store of scheduler instance s
ScheduledJob(c, s) == [job_id |-> c.job_id, trigger |-> _create_trigger(c.trigger), scheduler |-> s]

\* _configure_jobs from entry i on, with the jobs added so far: the jobs added, and
\* whether _create_trigger raised
RECURSIVE _configure_jobs(_, _, _)
_configure_jobs(i, added, s) ==
    IF i > Len(jobs_config) THEN [added |-> added, raised |-> FALSE]
    ELSE LET c == jobs_config[i]
         IN  IF ~c.enabled THEN _configure_jobs(i + 1, added, s)
             ELSE IF c.job_id \notin _jobs THEN _configure_jobs(i + 1, added, s)
             ELSE IF _create_trigger(c.trigger) = "ValueError"
                  THEN [added |-> added, raised |-> TRUE]
             ELSE IF _create_trigger(c.trigger) = "None" THEN _configure_jobs(i + 1, added, s)
             ELSE _configure_jobs(i + 1, added \cup {ScheduledJob(c, s)}, s)

\* (mutation) start() does not notice that the scheduler runs
is_running_never == FALSE

\* line 64: if self._running
is_running == _running

InitSched ==
    /\ failure_threshold = 5 /\ reset_timeout_seconds = 60 /\ half_open_max_calls = 1
    /\ New
    /\ Idle
    /\ NoCall
    /\ NoWrapper
    /\ _jobs \in SUBSET JobIds
    /\ _db_start_callback = FALSE /\ _db_complete_callback = FALSE
    /\ running = [r \in Runners |-> [pc |-> "idle"]]
    /\ last = [job |-> "none"] /\ nruns = 0 /\ failed_before = FALSE
    /\ jobs_config \in JobsSections
    /\ APSCHEDULER_AVAILABLE \in BOOLEAN
    /\ \E config_enabled \in BOOLEAN : enabled = (config_enabled /\ APSCHEDULER_AVAILABLE)
    /\ _scheduler = None
    /\ _running = FALSE
    /\ jobstore = {}
    /\ nstarts = 0
    /\ last_start = [ret |-> "none", how |-> "none"]
    /\ NoMail

\* what the scheduler leaves alone
outsideSched == <<cfgVars, cbVars, now, obsVars, concVars, retryVars, invVars, jobVars,
                  jobs_config, APSCHEDULER_AVAILABLE, enabled, mailVars>>

\* a call of start()
StartCalled ==
    /\ nstarts < MaxStarts
    /\ nstarts' = nstarts + 1

\* lines 60-62, 68-70: disabled, or no scheduling library
StartRefused ==
    /\ StartCalled
    /\ ~enabled \/ (~is_running /\ ~APSCHEDULER_AVAILABLE)
    /\ last_start' = [ret |-> "False", how |-> "refused"]
    /\ UNCHANGED <<_scheduler, _running, jobstore, outsideSched>>

\* lines 64-66: already running
StartRunning ==
    /\ StartCalled
    /\ enabled
    /\ is_running
    /\ last_start' = [ret |-> "True", how |-> "noop"]
    /\ UNCHANGED <<_scheduler, _running, jobstore, outsideSched>>

\* lines 71-86: a new BackgroundScheduler, the jobs configured, the scheduler started
StartConfigured ==
    /\ StartCalled
    /\ enabled /\ ~is_running /\ APSCHEDULER_AVAILABLE
    /\ ~_configure_jobs(1, {}, nstarts + 1).raised
    /\ _scheduler' = nstarts + 1
    /\ jobstore' = _configure_jobs(1, {}, nstarts + 1).added
    /\ _running' = TRUE
    /\ last_start' = [ret |-> "True", how |-> "attempted"]
    /\ UNCHANGED outsideSched

\* lines 71-82, 88-90: _configure_jobs raises; the new scheduler is never started
StartFailed ==
    /\ StartCalled
    /\ enabled /\ ~is_running /\ APSCHEDULER_AVAILABLE
    /\ _configure_jobs(1, {}, nstarts + 1).raised
    /\ _scheduler' = nstarts + 1
    /\ jobstore' = _configure_jobs(1, {}, nstarts + 1).added
    /\ last_start' = [ret |-> "False", how |-> "attempted"]
    /\ UNCHANGED <<_running, outsideSched>>

\* stop(), lines 94-97
Stop ==
    /\ _scheduler # None /\ _running
    /\ _running' = FALSE
    /\ last_start' = [ret |-> "none", how |-> "stopped"]
    /\ UNCHANGED <<_scheduler, jobstore, nstarts, outsideSched>>

NextSched ==
    \/ StartRefused
    \/ StartRunning
    \/ StartConfigured
    \/ StartFailed
    \/ Stop

SpecSched == InitSched /\ [][NextSched]_vars

(* ------------------- notification channels and router ------------------ *)
\* Priority (notifications/base.py)
Priorities == {"urgent", "digest", "info"}

\* the routing lists a configuration can give a priority
RouteLists == UNION {[1..n -> ChannelNames] : n \in 0..MaxRoute}

\* how the HTTP request of a channel ends: the service accepts the message, the service
\* answers without accepting it, urlopen raises URLError, anything else is raised
NetOutcomes == {"ok", "rejected", "URLError", "Exception"}

\* what the history callback does when called
CallbackOutcomes == {"returns", "raises"}

\* NotificationResult.__post_init__ that stamps every result
NotificationResult_always_stamped(success, channel, message_id, error) ==
    [success |-> success, channel |-> channel, message_id |-> message_id, error |-> error,
     sent_at |-> now]

\* NotificationResult(success, channel, message_id, error) after __post_init__: sent_at is
\* never passed by the code
NotificationResult(success, channel, message_id, error) ==
    [success |-> success, channel |-> channel, message_id |-> message_id, error |-> error,
     sent_at |-> IF success THEN now ELSE None]

\* NotificationChannel.is_available of the base class: the enabled flag alone
is_available_enabled_only(c) == channels[c].enabled

\* TelegramChannel.is_available, SlackChannel.is_available
is_available(c) == channels[c].enabled /\ channels[c].credential

\* send() of a channel that is not available
not_available_result(c) ==
    NotificationResult(FALSE, c, "None", "not configured or disabled")

\* send() of an available channel, by how the request ended
delivery_result(c, net) ==
    CASE net = "ok" -> NotificationResult(TRUE, c, "id", "None")
      [] net = "rejected" -> NotificationResult(FALSE, c, "None", "rejected by the service")
      [] net = "URLError" -> NotificationResult(FALSE, c, "None", "Network error")
      [] OTHER -> NotificationResult(FALSE, c, "None", "Exception")

\* TelegramChannel.send, SlackChannel.send: the result
channel_send(c, net) ==
    IF ~is_available(c) THEN not_available_result(c) ELSE delivery_result(c, net)

\* TelegramChannel.send, SlackChannel.send: the requests issued
channel_requests(c, net) ==
    IF ~is_available(c) THEN <<>> ELSE <<[type |-> "request", channel |-> c, net |-> net]>>

\* the failures in a row of a channel's requests, after one more send()
streak_after(c, net) ==
    IF ~is_available(c) THEN net_streak
    ELSE [net_streak EXCEPT ![c] = IF net = "ok" THEN 0 ELSE @ + 1]

\* a router that skips an unregistered name without a result
not_configured_skipped(c) == <<>>

\* send(): what an unregistered name adds to results
not_configured(c) == <<NotificationResult(FALSE, c, "None", "Channel not configured")>>

\* send(): what an unavailable channel adds to results
not_available(c) == <<NotificationResult(FALSE, c, "None", "Channel not available")>>

\* a router that logs the successful deliveries only
logs_successes_only(r) == db_callback /\ r.success

\* send(): whether the history callback is called with the result
logs(r) == db_callback

\* send(): target_channels
target_channels(p) == routing[p]

\* a router constructed from a configuration, its channels and the breaker of the
\* channels' service
InitNotify ==
    /\ failure_threshold \in 1..MaxThreshold
    /\ reset_timeout_seconds = 120
    /\ half_open_max_calls = 1
    /\ New
    /\ Idle
    /\ NoCall
    /\ NoWrapper /\ NoJobs /\ NoScheduler /\ NoFetch /\ NoMessages /\ NoLetter
    /\ channels \in [ChannelNames ->
           {[registered |-> FALSE, enabled |-> FALSE, credential |-> FALSE]}
           \cup [registered : {TRUE}, enabled : BOOLEAN, credential : BOOLEAN]]
    /\ \E l \in RouteLists :
           routing = [urgent |-> l, digest |-> <<"slack">>, info |-> <<"slack">>]
    /\ db_callback \in BOOLEAN
    /\ npc = "idle" /\ send_priority = "info" /\ ci = 1 /\ sent = <<>> /\ nlog = <<>>
    /\ last_send = [priority |-> "none"] /\ direct = [channel |-> "none"]
    /\ net_streak = [c \in ChannelNames |-> 0] /\ nsends = 0

\* what the router and the channels leave alone
outsideNotify == <<cfgVars, cbVars, now, obsVars, concVars, retryVars, invVars, jobVars,
                   schedVars, fetchVars, msgVars, letterVars, channels, routing, db_callback>>

\* NotificationRouter.send is called
RouterSend(p) ==
    /\ npc = "idle"
    /\ nsends < MaxSends
    /\ nsends' = nsends + 1
    /\ send_priority' = p
    /\ ci' = 1
    /\ sent' = <<>>
    /\ nlog' = <<>>
    /\ npc' = "loop"
    /\ last_send' = [priority |-> "none"]
    /\ direct' = [channel |-> "none"]
    /\ UNCHANGED net_streak
    /\ UNCHANGED outsideNotify

\* the loop reaches a name that has no channel
ChannelNotConfigured ==
    /\ npc = "loop"
    /\ ci <= Len(target_channels(send_priority))
    /\ LET c == target_channels(send_priority)[ci] IN
        /\ ~channels[c].registered
        /\ sent' = sent \o not_configured(c)
    /\ ci' = ci + 1
    /\ UNCHANGED <<npc, send_priority, nlog, last_send, direct, net_streak, nsends>>
    /\ UNCHANGED outsideNotify

\* the loop reaches a channel that is not available
ChannelNotAvailable ==
    /\ npc = "loop"
    /\ ci <= Len(target_channels(send_priority))
    /\ LET c == target_channels(send_priority)[ci] IN
        /\ channels[c].registered
        /\ ~is_available(c)
        /\ nlog' = Append(nlog, [type |-> "is_available", pos |-> ci, channel |-> c, res |-> FALSE])
        /\ sent' = sent \o not_available(c)
    /\ ci' = ci + 1
    /\ UNCHANGED <<npc, send_priority, last_send, direct, net_streak, nsends>>
    /\ UNCHANGED outsideNotify

\* the loop reaches an available channel: its send() and the history callback
ChannelSend ==
    /\ npc = "loop"
    /\ ci <= Len(target_channels(send_priority))
    /\ LET c == target_channels(send_priority)[ci] IN
        /\ channels[c].registered
        /\ is_available(c)
        /\ \E net \in NetOutcomes, did \in CallbackOutcomes :
            LET r == channel_send(c, net)
                called == <<[type |-> "is_available", pos |-> ci, channel |-> c, res |-> TRUE],
                            [type |-> "send", pos |-> ci, channel |-> c]>>
                requested == [i \in 1..Len(channel_requests(c, net)) |->
                                 [type |-> "request", pos |-> ci, channel |-> c, net |-> net]]
                logged == IF logs(r)
                          THEN <<[type |-> "db_callback", pos |-> ci, channel |-> c,
                                  success |-> r.success, error |-> r.error, did |-> did]>>
                          ELSE <<>>
            IN  /\ logs(r) \/ did = "returns"
                /\ nlog' = nlog \o called \o requested \o logged
                /\ sent' = Append(sent, r)
                /\ net_streak' = streak_after(c, net)
    /\ ci' = ci + 1
    /\ UNCHANGED <<npc, send_priority, last_send, direct, nsends>>
    /\ UNCHANGED outsideNotify

\* the loop is over: send() returns results
RouterReturns ==
    /\ npc = "loop"
    /\ ci > Len(target_channels(send_priority))
    /\ last_send' = [priority |-> send_priority, results |-> sent, log |-> nlog]
    /\ npc' = "idle"
    /\ ci' = 1 /\ sent' = <<>> /\ nlog' = <<>>
    /\ UNCHANGED <<send_priority, direct, net_streak, nsends>>
    /\ UNCHANGED outsideNotify

\* send() of a channel is called by another caller than the router's send()
DirectSend(c) ==
    /\ npc = "idle"
    /\ nsends < MaxSends
    /\ channels[c].registered
    /\ nsends' = nsends + 1
    /\ \E net \in NetOutcomes :
        /\ ~is_available(c) => net = "ok"
        /\ direct' = [channel |-> c, available |-> is_available(c),
                      result |-> channel_send(c, net),
                      requests |-> channel_requests(c, net)]
        /\ net_streak' = streak_after(c, net)
    /\ last_send' = [priority |-> "none"]
    /\ UNCHANGED <<npc, send_priority, ci, sent, nlog>>
    /\ UNCHANGED outsideNotify

NextNotify ==
    \/ \E p \in Priorities : RouterSend(p)
    \/ ChannelNotConfigured
    \/ ChannelNotAvailable
    \/ ChannelSend
    \/ RouterReturns
    \/ \E c \in ChannelNames : DirectSend(c)

SpecNotify == InitNotify /\ [][NextNotify]_vars

(* ----------------------------- InboxFetcher ---------------------------- *)
\* an account of the configuration: its email (a number stands for the address) and
\* whether it has an app_password
AccountLists ==
    UNION {{l \in [1..n -> [email : 1..MaxAccounts, app_password : BOOLEAN]] :
               \A i \in 1..n : l[i].email = i} : n \in 0..MaxAccounts}

\* what a search or a fetch finds: nothing or something (one stands for some)
Found == {0, 1}

\* what the mail server is asked for in a session, in the order of fetch_account
Steps == <<"connect", "login", "select", "search_unseen", "search_flagged",
           "fetch_urgent", "fetch_recent", "logout">>

\* the steps that can raise out of the try block: _fetch_messages catches the failures of
\* each message
Raising == {"connect", "login", "select", "search_unseen", "search_flagged", "logout"}

\* what a step raises: imaplib.IMAP4.error, TimeoutError, ConnectionRefusedError, any other
FailureKinds == {"IMAP4.error", "TimeoutError", "ConnectionRefusedError", "Exception"}

\* AccountInbox(account=...) as constructed
AccountInbox(email) ==
    [account |-> email, status |-> "ok", total_unread |-> 0, urgent |-> 0,
     attachments_processed |-> 0, pdfs_extracted |-> 0, error |-> "None"]

\* a fetcher that treats every account as having a credential
has_credential_any(a) == TRUE

\* fetch_account: app_password is set
has_credential(a) == a.app_password

\* handlers without the final `except Exception`
handled_known_only(kind) == kind # "Exception"

\* fetch_account: the failure is caught by one of the handlers
handled(kind) == TRUE

\* fetch_account: the status a handler sets
status_for(kind) == IF kind = "TimeoutError" THEN "timeout" ELSE "error"

\* fetch_account: the error text a handler sets
error_for(kind) ==
    CASE kind = "IMAP4.error" -> "IMAP error"
      [] kind = "TimeoutError" -> "Connection timeout"
      [] kind = "ConnectionRefusedError" -> "Connection refused"
      [] OTHER -> "Exception"

\* a finally block that never logs out
finally_logout_never(m) == FALSE

\* fetch_account: the finally block logs out
finally_logout(m) == m # None

\* the session record after the finally block
closed(ses, m) == IF finally_logout(m) THEN [ses EXCEPT !.logouts = @ + 1] ELSE ses

RECURSIVE Sum(_)
\* sum() over a sequence of numbers
Sum(q) == IF q = <<>> THEN 0 ELSE Head(q) + Sum(Tail(q))

\* fetch_all_accounts: total_unread
total_unread(rs) ==
    Sum([i \in 1..Len(rs) |-> IF rs[i].status = "ok" THEN rs[i].total_unread ELSE 0])

\* fetch_all_accounts: total_urgent
total_urgent(rs) ==
    Sum([i \in 1..Len(rs) |-> IF rs[i].status = "ok" THEN rs[i].urgent ELSE 0])

\* fetch_all_accounts: the error entry of an account
account_errors(r) ==
    IF r.status # "ok" THEN <<[account |-> r.account, error |-> r.error]>> ELSE <<>>

\* a fetcher constructed from a configuration
InitFetch ==
    /\ failure_threshold = 5 /\ reset_timeout_seconds = 60 /\ half_open_max_calls = 1
    /\ New
    /\ Idle
    /\ NoCall
    /\ NoWrapper /\ NoJobs /\ NoScheduler /\ NoRouter /\ NoMessages /\ NoLetter
    /\ accounts \in AccountLists
    /\ db_store \in BOOLEAN
    /\ fpc = "idle" /\ ai = 1 /\ inboxes = <<>> /\ errors = <<>>
    /\ total_attachments = 0 /\ total_pdfs = 0
    /\ inbox = [account |-> 0] /\ mail = None /\ step = 1
    /\ session = [account |-> 0] /\ sessions = <<>>
    /\ fetch_result = [returned |-> FALSE]

\* what the fetcher leaves alone
outsideFetch == <<cfgVars, cbVars, now, obsVars, concVars, retryVars, invVars, jobVars,
                  schedVars, notifyVars, msgVars, letterVars, accounts, db_store>>

\* fetch_all_accounts is called
FetchAll ==
    /\ fpc = "idle"
    /\ fpc' = "loop"
    /\ ai' = 1 /\ inboxes' = <<>> /\ errors' = <<>>
    /\ total_attachments' = 0 /\ total_pdfs' = 0
    /\ UNCHANGED <<inbox, mail, step, session, sessions, fetch_result>>
    /\ UNCHANGED outsideFetch

\* fetch_account has returned r: the rest of the loop body of fetch_all_accounts
Fetched(r, ses) ==
    /\ inboxes' = Append(inboxes, r)
    /\ total_attachments' = total_attachments + r.attachments_processed
    /\ total_pdfs' = total_pdfs + r.pdfs_extracted
    /\ errors' = errors \o account_errors(r)
    /\ sessions' = Append(sessions, ses)
    /\ ai' = ai + 1
    /\ fpc' = "loop"

\* fetch_account for an account without app_password
NoCredential ==
    /\ fpc = "loop"
    /\ ai <= Len(accounts)
    /\ ~has_credential(accounts[ai])
    /\ LET r == [AccountInbox(accounts[ai].email) EXCEPT
                    !.status = "error", !.error = "No app_password configured"]
           ses == [account |-> accounts[ai].email, opened |-> FALSE, done |-> <<>>,
                   logouts |-> 0, failed_at |-> "none", kind |-> "none"]
       IN  Fetched(r, ses)
    /\ UNCHANGED <<inbox, mail, step, session, fetch_result>>
    /\ UNCHANGED outsideFetch

\* fetch_account for an account with app_password: up to the try block
SessionBegins ==
    /\ fpc = "loop"
    /\ ai <= Len(accounts)
    /\ has_credential(accounts[ai])
    /\ fpc' = "session"
    /\ inbox' = AccountInbox(accounts[ai].email)
    /\ mail' = None
    /\ step' = 1
    /\ session' = [account |-> accounts[ai].email, opened |-> FALSE, done |-> <<>>,
                   logouts |-> 0, failed_at |-> "none", kind |-> "none"]
    /\ UNCHANGED <<ai, inboxes, errors, total_attachments, total_pdfs, sessions, fetch_result>>
    /\ UNCHANGED outsideFetch

\* the next step of the try block succeeds
StepSucceeds ==
    /\ fpc = "session"
    /\ step <= Len(Steps)
    /\ step' = step + 1
    /\ LET s == Steps[step]
           did == [session EXCEPT !.done = Append(@, s)]
       IN  CASE s = "connect" ->
                  /\ mail' = ai
                  /\ session' = [did EXCEPT !.opened = TRUE]
                  /\ UNCHANGED inbox
             [] s = "search_unseen" ->
                  /\ \E unread \in Found : inbox' = [inbox EXCEPT !.total_unread = unread]
                  /\ session' = did
                  /\ UNCHANGED mail
             [] s = "fetch_urgent" ->
                  /\ \E u \in Found, a \in Found, p \in Found :
                        /\ u <= inbox.total_unread /\ a <= inbox.total_unread /\ p <= a
                        /\ inbox' = [inbox EXCEPT !.urgent = u,
                                        !.attachments_processed = @ + a,
                                        !.pdfs_extracted = @ + p]
                  /\ session' = did
                  /\ UNCHANGED mail
             [] s = "fetch_recent" ->
                  /\ \E a \in Found, p \in Found :
                        /\ a <= inbox.total_unread /\ p <= a
                        /\ inbox' = [inbox EXCEPT !.attachments_processed = @ + a,
                                                  !.pdfs_extracted = @ + p]
                  /\ session' = IF inbox.total_unread > 0 THEN did ELSE session
                  /\ UNCHANGED mail
             [] s = "logout" ->
                  /\ session' = [did EXCEPT !.logouts = @ + 1]
                  /\ UNCHANGED <<inbox, mail>>
             [] OTHER ->
                  /\ session' = did
                  /\ UNCHANGED <<inbox, mail>>
    /\ UNCHANGED <<fpc, ai, inboxes, errors, total_attachments, total_pdfs, sessions, fetch_result>>
    /\ UNCHANGED outsideFetch

\* the next step of the try block raises: the handler, the finally block and the return
StepFails ==
    /\ fpc = "session"
    /\ step <= Len(Steps)
    /\ Steps[step] \in Raising
    /\ \E kind \in FailureKinds :
        LET tried == [session EXCEPT !.done = Append(@, Steps[step]),
                                     !.logouts = IF Steps[step] = "logout" THEN @ + 1 ELSE @,
                                     !.failed_at = Steps[step], !.kind = kind]
            r == [inbox EXCEPT !.status = status_for(kind), !.error = error_for(kind)]
        IN  IF handled(kind)
            THEN /\ Fetched(r, closed(tried, mail))
                 /\ UNCHANGED fetch_result
            ELSE /\ fpc' = "done"
                 /\ fetch_result' = [returned |-> FALSE, raised |-> kind]
                 /\ sessions' = Append(sessions, closed(tried, mail))
                 /\ UNCHANGED <<ai, inboxes, errors, total_attachments, total_pdfs>>
    /\ UNCHANGED <<inbox, mail, step, session>>
    /\ UNCHANGED outsideFetch

\* the try block is over: the finally block and the return
SessionReturns ==
    /\ fpc = "session"
    /\ step > Len(Steps)
    /\ Fetched(inbox, closed(session, mail))
    /\ UNCHANGED <<inbox, mail, step, session, fetch_result>>
    /\ UNCHANGED outsideFetch

\* the loop is over: the totals, the store callback and the return
FetchAllReturns ==
    /\ fpc = "loop"
    /\ ai > Len(accounts)
    /\ fpc' = "done"
    /\ \E stored \in {"returns", "raises"} :
        /\ db_store \/ stored = "returns"
        /\ errors' = IF db_store /\ stored = "raises"
                     THEN Append(errors, [account |-> 0, error |-> "DB storage failed"])
                     ELSE errors
        /\ fetch_result' = [returned |-> TRUE, accounts |-> inboxes,
                            total_unread |-> total_unread(inboxes),
                            total_urgent |-> total_urgent(inboxes),
                            total_attachments |-> total_attachments,
                            total_pdfs_extracted |-> total_pdfs,
                            errors |-> errors']
    /\ UNCHANGED <<ai, inboxes, total_attachments, total_pdfs, inbox, mail, step, session, sessions>>
    /\ UNCHANGED outsideFetch

NextFetch ==
    \/ FetchAll
    \/ NoCredential
    \/ SessionBegins
    \/ StepSucceeds
    \/ StepFails
    \/ SessionReturns
    \/ FetchAllReturns

SpecFetch == InitFetch /\ [][NextFetch]_vars

(* ------------------- InboxFetcher._fetch_messages ---------------------- *)
\* A part of a message, by what the code asks of it:
\*   disposition: whether Content-Disposition holds "attachment";
\*   filename: "none" (get_filename() is empty), "plain", or "undecodable": an encoded
\*     word that decode_header rejects with HeaderParseError;
\*   payload: what get_payload(decode=True) gives: "bytes", "large" (bytes beyond
\*     MAX_ATTACHMENT_SIZE), "empty", or "raises";
\*   content_type; and pdf: what extract_pdf_text makes of the payload: "text",
\*     "no_text" (no page has text: ("", None)) or "error" (("", reason)).
Part(d, f, p, c, x) ==
    [disposition |-> d, filename |-> f, payload |-> p, content_type |-> c, pdf |-> x]

PartKinds ==
    { Part("inline", "none", "bytes", "text/plain", "text"),
      Part("attachment", "none", "bytes", "image/png", "text"),
      Part("attachment", "undecodable", "bytes", "text/plain", "text"),
      Part("attachment", "plain", "empty", "application/pdf", "text"),
      Part("attachment", "plain", "raises", "application/pdf", "text"),
      Part("attachment", "plain", "bytes", "application/pdf", "text"),
      Part("attachment", "plain", "bytes", "application/pdf", "no_text"),
      Part("attachment", "plain", "bytes", "application/pdf", "error"),
      Part("attachment", "plain", "large", "application/pdf", "text"),
      Part("attachment", "plain", "bytes", "text/plain", "text"),
      Part("attachment", "plain", "bytes", "image/png", "text") }

\* the messages a server can hold: the parts walk() yields, in order
PartLists == UNION {[1..n -> PartKinds] : n \in 0..MaxParts}

\* what the server and the parser make of a message id: "ok", "empty" (no msg_data),
\* "fetch_raises" (mail.fetch raises), "header_raises" (the Subject or From header is an
\* encoded word that decode_header rejects)
MessageOutcomes == {"ok", "empty", "fetch_raises", "header_raises"}

\* extract_pdf_text(payload): (text, error)
extract_pdf_text(part) ==
    CASE part.pdf = "text" -> [text |-> TRUE, error |-> "None"]
      [] part.pdf = "no_text" -> [text |-> FALSE, error |-> "None"]
      [] OTHER -> [text |-> FALSE, error |-> "reason"]

\* the EmailAttachment the try block of _extract_attachments builds for a part whose
\* payload is not empty; at is the position of the part in the message
EmailAttachment(at, part, pdfs) ==
    IF part.payload = "raises"
    THEN [part |-> at, size_bytes |-> 0, extracted_text |-> FALSE,
          extraction_status |-> "failed", extraction_error |-> "reason"]
    ELSE IF part.content_type = "application/pdf" /\ pdfs
    THEN IF part.payload # "large"
         THEN [part |-> at, size_bytes |-> 1, extracted_text |-> extract_pdf_text(part).text,
               extraction_status |-> IF extract_pdf_text(part).text THEN "success" ELSE "failed",
               extraction_error |-> extract_pdf_text(part).error]
         ELSE [part |-> at, size_bytes |-> 2, extracted_text |-> FALSE,
               extraction_status |-> "skipped", extraction_error |-> "File too large"]
    ELSE IF part.content_type = "text/plain"
    THEN [part |-> at, size_bytes |-> 1, extracted_text |-> TRUE,
          extraction_status |-> "success", extraction_error |-> "None"]
    ELSE [part |-> at, size_bytes |-> IF part.payload = "large" THEN 2 ELSE 1,
          extracted_text |-> FALSE,
          extraction_status |-> "skipped", extraction_error |-> "None"]

\* _extract_attachments from part i on. acc holds attachments, pdfs_extracted, the
\* number of calls of the store callback, and raised: an exception left the function.
\* The file name is decoded before the try block, so a HeaderParseError leaves the
\* function there, with the parts after it unread.
RECURSIVE walk(_, _, _, _)
walk(parts, i, pdfs, acc) ==
    IF i > Len(parts) THEN acc
    ELSE IF parts[i].disposition # "attachment" THEN walk(parts, i + 1, pdfs, acc)
    ELSE IF parts[i].filename = "none" THEN walk(parts, i + 1, pdfs, acc)
    ELSE IF parts[i].filename = "undecodable" THEN [acc EXCEPT !.raised = TRUE]
    ELSE IF parts[i].payload = "empty" THEN walk(parts, i + 1, pdfs, acc)
    ELSE LET a == EmailAttachment(i, parts[i], pdfs) IN
         walk(parts, i + 1, pdfs,
              [acc EXCEPT !.attachments = Append(@, a),
                          !.pdfs_extracted =
                              IF /\ parts[i].content_type = "application/pdf"
                                 /\ a.extraction_status = "success"
                              THEN @ + 1 ELSE @,
                          !.store_calls = IF parts[i].payload = "raises" THEN @ ELSE @ + 1])

_extract_attachments(parts, pdfs) ==
    walk(parts, 1, pdfs,
         [raised |-> FALSE, attachments |-> <<>>, pdfs_extracted |-> 0, store_calls |-> 0])

InitMessages ==
    /\ failure_threshold = 5 /\ reset_timeout_seconds = 60 /\ half_open_max_calls = 1
    /\ New
    /\ Idle /\ NoCall /\ NoWrapper /\ NoJobs /\ NoScheduler /\ NoRouter /\ NoFetch /\ NoLetter
    /\ extract_pdfs \in BOOLEAN
    /\ db_attachment \in BOOLEAN
    /\ mpc = "idle" /\ message_ids = 0 /\ extract_attachments = TRUE /\ mi = 0
    /\ messages = <<>> /\ attachment_count = 0 /\ pdf_count = 0 /\ att_stored = 0
    /\ last_message = [id |-> 0]

outsideMessages == <<cfgVars, cbVars, now, obsVars, concVars, retryVars, invVars, jobVars,
                     schedVars, notifyVars, fetchVars, letterVars, extract_pdfs, db_attachment>>

\* _fetch_messages is called with 0..MaxMessages message ids
FetchMessages ==
    /\ mpc \in {"idle", "done"}
    /\ \E n \in 0..MaxMessages, ea \in BOOLEAN :
           /\ message_ids' = n /\ mi' = n /\ extract_attachments' = ea
    /\ mpc' = "loop"
    /\ messages' = <<>> /\ attachment_count' = 0 /\ pdf_count' = 0
    /\ last_message' = [id |-> 0] /\ att_stored' = 0
    /\ UNCHANGED outsideMessages

\* an iteration of the loop whose fetch gives no data: continue
MessageEmpty ==
    /\ mpc = "loop" /\ mi >= 1
    /\ last_message' = [id |-> mi, outcome |-> "empty", parts |-> <<>>, store |-> "none",
                        returned |-> FALSE, attachments |-> <<>>]
    /\ mi' = mi - 1
    /\ UNCHANGED <<mpc, message_ids, extract_attachments, messages, attachment_count,
                   pdf_count, att_stored, outsideMessages>>

\* an iteration whose fetch or header decoding raises: except Exception: continue
MessageFails ==
    /\ mpc = "loop" /\ mi >= 1
    /\ \E o \in {"fetch_raises", "header_raises"} :
           last_message' = [id |-> mi, outcome |-> o, parts |-> <<>>, store |-> "none",
                            returned |-> FALSE, attachments |-> <<>>]
    /\ mi' = mi - 1
    /\ UNCHANGED <<mpc, message_ids, extract_attachments, messages, attachment_count,
                   pdf_count, att_stored, outsideMessages>>

\* an iteration whose message is fetched and parsed: its attachments are extracted, and
\* the message is appended unless the extraction raised; store is what the store callback
\* does when it is called
MessageRead ==
    /\ mpc = "loop" /\ mi >= 1
    /\ \E parts \in PartLists, store \in {"returns", "raises"} :
           LET r == IF extract_attachments
                    THEN _extract_attachments(parts, extract_pdfs)
                    ELSE [raised |-> FALSE, attachments |-> <<>>, pdfs_extracted |-> 0,
                          store_calls |-> 0]
           IN  /\ last_message' = [id |-> mi, outcome |-> "ok", parts |-> parts,
                                   store |-> store, returned |-> ~r.raised,
                                   attachments |-> r.attachments]
               /\ att_stored' = IF db_attachment /\ store = "returns"
                                THEN att_stored + r.store_calls ELSE att_stored
               /\ IF r.raised
                  THEN UNCHANGED <<messages, attachment_count, pdf_count>>
                  ELSE /\ messages' = Append(messages, mi)
                       /\ attachment_count' = attachment_count + Len(r.attachments)
                       /\ pdf_count' = pdf_count + r.pdfs_extracted
    /\ mi' = mi - 1
    /\ UNCHANGED <<mpc, message_ids, extract_attachments, outsideMessages>>

\* return messages, total_attachments, total_pdfs
FetchMessagesReturns ==
    /\ mpc = "loop" /\ mi = 0
    /\ mpc' = "done"
    /\ UNCHANGED <<message_ids, extract_attachments, mi, messages, attachment_count,
                   pdf_count, att_stored, last_message, outsideMessages>>

NextMessages ==
    \/ FetchMessages
    \/ MessageEmpty
    \/ MessageFails
    \/ MessageRead
    \/ FetchMessagesReturns

SpecMessages == InitMessages /\ [][NextMessages]_vars

(* ----------------------------- parse_letter ---------------------------- *)
\* datetime.date: the proleptic Gregorian calendar
is_leap(y) == y % 4 = 0 /\ (y % 100 # 0 \/ y % 400 = 0)

days_in_month(y, m) ==
    IF m = 2 THEN (IF is_leap(y) THEN 29 ELSE 28)
    ELSE IF m \in {4, 6, 9, 11} THEN 30 ELSE 31

\* date(year, month, day) raises ValueError unless this holds
valid_date(y, m, d) == y \in 1..9999 /\ m \in 1..12 /\ d \in 1..days_in_month(y, m)

date(y, m, d) == [year |-> y, month |-> m, day |-> d]

\* a < b on dates
earlier(a, b) ==
    \/ a.year < b.year
    \/ a.year = b.year /\ a.month < b.month
    \/ a.year = b.year /\ a.month = b.month /\ a.day < b.day

RECURSIVE days_before_month(_, _)
days_before_month(y, m) ==
    IF m = 1 THEN 0 ELSE days_before_month(y, m - 1) + days_in_month(y, m - 1)

days_before_year(y) == (y - 1) * 365 + (y - 1) \div 4 - (y - 1) \div 100 + (y - 1) \div 400

toordinal(d) == days_before_year(d.year) + days_before_month(d.year, d.month) + d.day

\* (a - b).days
days_between(a, b) == toordinal(a) - toordinal(b)

next_day(d) ==
    IF d.day < days_in_month(d.year, d.month) THEN date(d.year, d.month, d.day + 1)
    ELSE IF d.month < 12 THEN date(d.year, d.month + 1, 1)
    ELSE date(d.year + 1, 1, 1)

prev_day(d) ==
    IF d.day > 1 THEN date(d.year, d.month, d.day - 1)
    ELSE IF d.month > 1 THEN date(d.year, d.month - 1, days_in_month(d.year, d.month - 1))
    ELSE date(d.year - 1, 12, 31)

\* d + timedelta(days=n)
RECURSIVE plus_days(_, _)
plus_days(d, n) ==
    IF n = 0 THEN d
    ELSE IF n > 0 THEN plus_days(next_day(d), n - 1)
    ELSE plus_days(prev_day(d), n + 1)

\* The date expressions of a text, by what UK_DATE_PATTERNS read of them: an optional
\* weekday name, a day number, a month written as a full name, an abbreviated name or a
\* number, and a 4-digit year or none.
NoYear == 0
Years == {2027, 2028}
\* day and month: 28 and 29 February, 29 May
DayMonths == {<<28, 2>>, <<29, 2>>, <<29, 5>>}

Expressions ==
    {[weekday |-> w, style |-> "full", day |-> dm[1], month |-> dm[2], year |-> y] :
         w \in BOOLEAN, dm \in DayMonths, y \in Years}
    \cup {[weekday |-> TRUE, style |-> "full", day |-> dm[1], month |-> dm[2], year |-> NoYear] :
         dm \in DayMonths}
    \cup {[weekday |-> FALSE, style |-> s, day |-> dm[1], month |-> dm[2], year |-> y] :
         s \in {"abbr", "numeric"}, dm \in DayMonths, y \in Years}

\* ACTION_TRIGGERS: the trigger types
TriggerTypes == {"deadline", "payment", "permission", "attendance", "reply"}

\* A letter: its date expressions in text order, and the trigger types of which a
\* phrase occurs in it; MaxItems of both together.
Letters(n) ==
    {[exprs |-> x, phrases |-> p] :
         x \in [1..n -> Expressions],
         p \in {s \in SUBSET TriggerTypes : Cardinality(s) <= MaxItems - n}}

\* MONTH_MAP: 'may' is the one key that is a full and an abbreviated name
written_as_full(e) == e.style = "full" \/ (e.style = "abbr" /\ e.month = 5)
written_as_abbr(e) == e.style = "abbr" \/ (e.style = "full" /\ e.month = 5)

\* UK_DATE_PATTERNS[p] matches (a part of) the expression
matches(p, e) ==
    CASE p = 0 -> written_as_full(e) /\ e.year # NoYear
      [] p = 1 -> written_as_abbr(e) /\ e.year # NoYear
      [] p = 2 -> e.style = "numeric"
      [] p = 3 -> e.weekday /\ written_as_full(e)

\* lines 165-170: the year of a weekday expression. date(year, month, day) raises
\* ValueError for a day the month does not have: NoDate
inferred_from_tomorrow(m, d, t) ==
    IF ~valid_date(t.year, m, d) THEN NoDate
    ELSE IF ~earlier(t, date(t.year, m, d))
         THEN (IF valid_date(t.year + 1, m, d) THEN date(t.year + 1, m, d) ELSE NoDate)
         ELSE date(t.year, m, d)

inferred(m, d, t) ==
    IF ~valid_date(t.year, m, d) THEN NoDate
    ELSE IF earlier(date(t.year, m, d), t)
         THEN (IF valid_date(t.year + 1, m, d) THEN date(t.year + 1, m, d) ELSE NoDate)
         ELSE date(t.year, m, d)

\* the date of a match of pattern p, or NoDate when ValueError is raised
extracted(p, e, t) ==
    IF p = 3 THEN inferred(e.month, e.day, t)
    ELSE IF valid_date(e.year, e.month, e.day) THEN date(e.year, e.month, e.day)
    ELSE NoDate

\* re.finditer(UK_DATE_PATTERNS[p], text) from expression i on: the ExtractedDates
\* appended; original_text is the matched text, here the pattern and the expression
RECURSIVE finditer(_, _, _, _)
finditer(p, x, i, t) ==
    IF i > Len(x) THEN <<>>
    ELSE IF matches(p, x[i]) /\ extracted(p, x[i], t) # NoDate
    THEN <<[date |-> extracted(p, x[i], t), original_text |-> [pattern |-> p, at |-> i]]>>
             \o finditer(p, x, i + 1, t)
    ELSE finditer(p, x, i + 1, t)

\* lines 186-191: the first ExtractedDate of every date, in order
RECURSIVE seen_last(_, _)
seen_last(ds, kept) ==
    IF ds = <<>> THEN kept
    ELSE seen_last(Tail(ds),
                   IF \E k \in DOMAIN kept : kept[k].date = Head(ds).date
                   THEN [k \in DOMAIN kept |->
                            IF kept[k].date = Head(ds).date THEN Head(ds) ELSE kept[k]]
                   ELSE Append(kept, Head(ds)))

RECURSIVE seen(_, _)
seen(ds, kept) ==
    IF ds = <<>> THEN kept
    ELSE seen(Tail(ds),
              IF \E k \in DOMAIN kept : kept[k].date = Head(ds).date
              THEN kept
              ELSE Append(kept, Head(ds)))

_extract_dates(x, t) ==
    seen(finditer(0, x, 1, t) \o finditer(1, x, 1, t) \o finditer(2, x, 1, t)
             \o finditer(3, x, 1, t), <<>>)

\* min(d.date for d in dates)
min_date(ds) ==
    CHOOSE d \in {ds[k].date : k \in DOMAIN ds} :
        \A k \in DOMAIN ds : ~earlier(ds[k].date, d)

\* _extract_triggers, by trigger type
_extract_triggers(l) == l.phrases

_determine_urgency_strict(a, t) ==
    IF /\ a.earliest_date # NoDate
       /\ days_between(a.earliest_date, t) < 3
       /\ a.has_deadline \/ a.has_payment
    THEN "high"
    ELSE IF a.earliest_date # NoDate /\ days_between(a.earliest_date, t) <= 7 /\ a.has_payment
    THEN "high"
    ELSE IF a.earliest_date # NoDate /\ days_between(a.earliest_date, t) <= 7
    THEN "medium"
    ELSE IF a.has_deadline \/ a.has_payment THEN "medium"
    ELSE IF a.action_triggers # {} THEN "low"
    ELSE "info"

_determine_urgency(a, t) ==
    IF /\ a.earliest_date # NoDate
       /\ days_between(a.earliest_date, t) <= 3
       /\ a.has_deadline \/ a.has_payment
    THEN "high"
    ELSE IF a.earliest_date # NoDate /\ days_between(a.earliest_date, t) <= 7 /\ a.has_payment
    THEN "high"
    ELSE IF a.earliest_date # NoDate /\ days_between(a.earliest_date, t) <= 7
    THEN "medium"
    ELSE IF a.has_deadline \/ a.has_payment THEN "medium"
    ELSE IF a.action_triggers # {} THEN "low"
    ELSE "info"

\* parse_letter up to the urgency, and the analysis it returns
analysed(l, t) ==
    LET ds == _extract_dates(l.exprs, t)
        tr == _extract_triggers(l)
    IN  [dates |-> ds,
         earliest_date |-> IF ds # <<>> THEN min_date(ds) ELSE NoDate,
         action_triggers |-> tr,
         has_deadline |-> "deadline" \in tr,
         has_payment |-> "payment" \in tr,
         suggested_urgency |-> "low"]

parse_letter(l, t) ==
    LET a == analysed(l, t)
    IN  [a EXCEPT !.suggested_urgency = _determine_urgency(a, t)]

InitLetter ==
    /\ failure_threshold = 5 /\ reset_timeout_seconds = 60 /\ half_open_max_calls = 1
    /\ New
    /\ Idle /\ NoCall /\ NoWrapper /\ NoJobs /\ NoScheduler /\ NoRouter /\ NoFetch /\ NoMessages
    /\ today \in {t \in {date(y, dm[2], dm[1]) : y \in Years, dm \in DayMonths} :
                       valid_date(t.year, t.month, t.day)}
    /\ lop = "idle"
    /\ letter = [exprs |-> <<>>, phrases |-> {}]
    /\ analysis = LetterAnalysis

outsideLetter == <<cfgVars, cbVars, now, obsVars, concVars, retryVars, invVars, jobVars,
                   schedVars, notifyVars, fetchVars, msgVars, today>>

\* parse_letter(content, subject)
ParseLetter ==
    /\ lop = "idle"
    /\ \E n \in 0..MaxItems : \E l \in Letters(n) :
           /\ letter' = l
           /\ analysis' = parse_letter(l, today)
    /\ lop' = "parse_letter"
    /\ UNCHANGED outsideLetter

\* _determine_urgency(analysis) on an analysis built by hand, its earliest date within
\* MaxPast days before and MaxAhead days after today
DetermineUrgency ==
    /\ lop = "idle"
    /\ \E e \in {NoDate} \cup {plus_days(today, n) : n \in (0 - MaxPast)..MaxAhead},
          hd \in BOOLEAN, hp \in BOOLEAN,
          tr \in {s \in SUBSET TriggerTypes : Cardinality(s) <= 1} :
           LET a == [LetterAnalysis EXCEPT !.earliest_date = e, !.has_deadline = hd,
                                           !.has_payment = hp, !.action_triggers = tr]
           IN  analysis' = [a EXCEPT !.suggested_urgency = _determine_urgency(a, today)]
    /\ lop' = "_determine_urgency"
    /\ UNCHANGED <<letter, outsideLetter>>

\* the next letter
NextLetter ==
    /\ lop # "idle"
    /\ lop' = "idle"
    /\ letter' = [exprs |-> <<>>, phrases |-> {}]
    /\ analysis' = LetterAnalysis
    /\ UNCHANGED outsideLetter

NextLetters ==
    \/ ParseLetter
    \/ DetermineUrgency
    \/ NextLetter

SpecLetter == InitLetter /\ [][NextLetters]_vars

(* ------------------------------ claims -------------------------------- *)

\* reset_timeout has not elapsed since the last recorded failure
NotElapsed ==
    _last_failure_time # None /\ now < _last_failure_time + reset_timeout_seconds

\* C1: on a breaker that was Closed at the last record_success()/reset()/construction,
\* fewer than failure_threshold record_failure() calls since then leave it Closed and
\* allow_request() answers True; the failure_threshold-th one leaves it Open, and from
\* then on, while reset_timeout has not elapsed since the last failure, it is Open
\* and allow_request() answers False.
C1_OpensAtThreshold ==
    base = CLOSED =>
        /\ streak < failure_threshold =>
              (_state = CLOSED /\ (lastOp = "allow_request" => ret = "True"))
        /\ (streak = failure_threshold /\ lastOp = "record_failure") => _state = OPEN
        /\ (streak >= failure_threshold /\ NotElapsed) =>
              (_state = OPEN /\ (lastOp = "allow_request" => ret = "False"))

C1_Witness ==
    /\ base = CLOSED /\ failure_threshold >= 2 /\ streak = failure_threshold
    /\ lastOp = "allow_request" /\ ret = "False" /\ _state = OPEN /\ NotElapsed

\* C2: allow_request() on an Open breaker whose reset_timeout has not elapsed answers
\* False and leaves it Open; the first state/allow_request() query after the timeout
\* elapsed moves it to HalfOpen, later queries of that episode leave it HalfOpen and
\* never give probes back; in a HalfOpen episode allow_request() answers True while
\* fewer than half_open_max_calls calls were admitted and False once exactly
\* half_open_max_calls were.
C2_HalfOpenBudget ==
    [][ LET query == lastOp' \in {"state", "allow_request"}
            before == IF _state = OPEN THEN 0 ELSE grants
        IN  /\ (_state = OPEN /\ NotElapsed /\ lastOp' = "allow_request") =>
                  (ret' = "False" /\ _state' = OPEN)
            /\ (_state = OPEN /\ ~NotElapsed /\ query) =>
                  (_state' = HALF_OPEN /\ _half_open_calls' = grants')
            /\ (_state = HALF_OPEN /\ query) =>
                  (_state' = HALF_OPEN /\ _half_open_calls' >= _half_open_calls)
            /\ (_state' = HALF_OPEN /\ lastOp' = "allow_request") =>
                  \/ before < half_open_max_calls /\ ret' = "True" /\ grants' = before + 1
                  \/ before = half_open_max_calls /\ ret' = "False" /\ grants' = before
            /\ (_state' = HALF_OPEN /\ lastOp' = "state") => grants' = before
      ]_vars

C2_Witness ==
    /\ _state = HALF_OPEN /\ half_open_max_calls = 2 /\ grants = 2
    /\ lastOp = "allow_request" /\ ret = "False" /\ prev = HALF_OPEN

\* C3: record_success() on a HalfOpen breaker leaves it Closed with failure count 0;
\* after it, while fewer than failure_threshold failures have been recorded, the breaker
\* is Closed, counts exactly those failures and allow_request() answers True; the
\* failure_threshold-th failure opens it.
C3_HalfOpenSuccessCloses ==
    /\ (lastOp = "record_success" /\ prev = HALF_OPEN) =>
          (_state = CLOSED /\ _failure_count = 0)
    /\ baseFrom = HALF_OPEN =>
          /\ base = CLOSED
          /\ streak < failure_threshold =>
                /\ _state = CLOSED /\ _failure_count = streak
                /\ lastOp = "allow_request" => ret = "True"
          /\ (streak = failure_threshold /\ lastOp = "record_failure") => _state = OPEN

C3_Witness ==
    /\ baseFrom = HALF_OPEN /\ failure_threshold >= 2 /\ streak = failure_threshold - 1
    /\ _state = CLOSED /\ lastOp = "allow_request" /\ ret = "True"

\* C4: record_failure() on a HalfOpen breaker leaves it Open with the last failure
\* time set to the time of that call; the breaker enters HalfOpen only from Open, on a
\* query made when reset_timeout has elapsed since the last failure, and the episode
\* starts with no probe consumed but the one that query admitted.
C4_HalfOpenFailureReopens ==
    [][ /\ (_state = HALF_OPEN /\ lastOp' = "record_failure") =>
              (_state' = OPEN /\ _last_failure_time' = now)
        /\ (_state # HALF_OPEN /\ _state' = HALF_OPEN) =>
              /\ _state = OPEN /\ lastOp' \in {"state", "allow_request"}
              /\ _last_failure_time # None
              /\ now >= _last_failure_time + reset_timeout_seconds
              /\ _half_open_calls' = IF lastOp' = "allow_request" THEN 1 ELSE 0
              /\ lastOp' = "allow_request" => ret' = "True"
      ]_vars

\* a second HalfOpen episode, entered after a failed probe
C4_Witness ==
    /\ _state = HALF_OPEN /\ prev = OPEN /\ streak > failure_threshold
    /\ base = CLOSED /\ reset_timeout_seconds > 0 /\ _failure_count < failure_threshold + 2
    /\ lastOp = "allow_request" /\ ret = "True"

\* C5: record_success() on a Closed breaker leaves it Closed with failure count 0, and
\* as long as no run of record_failure() calls uninterrupted by record_success()/reset()
\* has reached failure_threshold, the breaker is Closed.
C5_OnlyConsecutiveFailuresOpen ==
    /\ (lastOp = "record_success" /\ prev = CLOSED) =>
          (_state = CLOSED /\ _failure_count = 0)
    /\ peak < failure_threshold => _state = CLOSED

\* more failures in total than the threshold, in two runs separated by a success
C5_Witness ==
    /\ peak < failure_threshold /\ streak < peak /\ peak + streak >= failure_threshold
    /\ baseFrom = CLOSED /\ lastOp = "record_failure" /\ _state = CLOSED

\* C6: in one HalfOpen episode at most half_open_max_calls allow_request() calls,
\* whichever callers make them, are answered True.
C6_ProbeBudgetUnderConcurrency == cgrants <= half_open_max_calls

\* C7: when failure_threshold record_failure() calls, and no other call, were made on a
\* new (Closed) breaker and all have returned, the failure count is failure_threshold and
\* the breaker is Open.
C7_NoFailureLost ==
    (/\ onlyFailures /\ failsDone = failure_threshold
     /\ \A t \in Threads : pc[t] = "idle")
        => (_failure_count = failsDone /\ _state = OPEN)

\* every invocation so far raised a failure the except clause catches
AlwaysFailedCaught == \A i \in Invocations : events[i].res \in exceptions

\* C8: the wrapper never invokes the function more than max_attempts times; when every
\* invocation raised a caught failure (and on_retry, if given, returned), the wrapper
\* ends having invoked the function exactly max_attempts times and slept exactly
\* max_attempts - 1 times, and raises the failure of the last invocation itself.
C8_RetryExhausts ==
    /\ NumCalls <= max_attempts /\ attempt <= max_attempts
    /\ (rpc = "done" /\ AlwaysFailedCaught /\ on_retry # "raises") =>
          /\ NumCalls = max_attempts
          /\ NumSleeps = max_attempts - 1
          /\ events[Len(events)].type = "call"
          /\ outcome = Raised(Failure(events[Len(events)].res, max_attempts))

\* three failed attempts, the last failure of another kind than the first
C8_Witness ==
    /\ rpc = "done" /\ AlwaysFailedCaught /\ max_attempts = 3 /\ NumCalls = 3
    /\ NumSleeps = 2 /\ outcome.type = "raise" /\ outcome.exc.id = 3
    /\ events[1].res # outcome.exc.kind

\* C9: an invocation that raises a failure the except clause does not catch is the last
\* thing the wrapper does: that failure is raised to the caller as it is, with no
\* on_retry, no sleep and no further invocation after it (so a first invocation that
\* fails this way is the only one).
C9_OnlyConfiguredKindsRetried ==
    \A i \in Invocations :
        events[i].res \in Kinds \ exceptions =>
            /\ i = Len(events)
            /\ rpc = "done"
            /\ outcome = Raised(Failure(events[i].res, events[i].attempt))
            /\ events[i].attempt = 1 => (NumCalls = 1 /\ NumSleeps = 0 /\ NumOnRetry = 0)

C9_Witness ==
    /\ rpc = "done" /\ Len(events) = 1 /\ events[1].res \in Kinds \ exceptions
    /\ exceptions # {} /\ on_retry = "returns" /\ max_attempts >= 2
    /\ outcome.type = "raise"

\* the events of failed attempt a followed by a retry, given the events of the attempt
FailedRound(ev, a) ==
    /\ ev[1].type = "call" /\ ev[1].attempt = a /\ ev[1].res \in exceptions
    /\ on_retry # "none" =>
          /\ ev[2].type = "on_retry" /\ ev[2].attempt = a
          /\ ev[2].exc = Failure(ev[1].res, a)
    /\ ev[Len(ev)].type = "sleep" /\ ev[Len(ev)].attempt = a

\* events per failed attempt that is retried
RoundLen == IF on_retry = "none" THEN 2 ELSE 3

\* C10: when the wrapper returns, the function was invoked j <= max_attempts times, the
\* value returned is that of invocation j, which is the last thing that happened, and
\* each attempt a = 1..j-1 before it was, in this order: the failed invocation, on_retry
\* (if given) called with that failure and a, the sleep.
C10_SuccessAfterFailures ==
    outcome.type = "return" =>
        LET j == NumCalls
        IN  /\ j <= max_attempts /\ rpc = "done" /\ attempt = j
            /\ outcome.value = j
            /\ Len(events) = RoundLen * (j - 1) + 1
            /\ events[Len(events)] = [type |-> "call", attempt |-> j, res |-> "ok"]
            /\ \A a \in 1..(j - 1) :
                 FailedRound(SubSeq(events, RoundLen * (a - 1) + 1, RoundLen * a), a)
            /\ on_retry # "none" => NumOnRetry = j - 1

C10_Witness ==
    /\ outcome.type = "return" /\ outcome.value = 3 /\ on_retry = "returns"
    /\ NumOnRetry = 2 /\ NumSleeps = 2

\* the call in progress, or finished last, went through retry_with_circuit_breaker
ByRetryWrapper == wrapped_by = "retry_with_circuit_breaker"

\* event i of the call is an allow_request() answered ok
AllowAt(i, ok) == events[i].type = "allow" /\ events[i].res = ok

\* how a call that found the circuit open ends
RaisedCircuitOpen ==
    /\ rpc = "done"
    /\ outcome.type = "CircuitBreakerError"
    /\ outcome.service_name = name
    /\ outcome.reset_time # None

\* C11: in retry_with_circuit_breaker and in protect, every invocation of the wrapped
\* function comes after an allow_request() answered True with no other invocation in
\* between; an allow_request() answered False is the last thing the call does: no
\* invocation and no sleep follow, and the call raises CircuitBreakerError with the
\* breaker's name and a reset time.
C11_InvokedOnlyWhenAllowed ==
    /\ \A i \in DOMAIN events :
        events[i].type = "call" =>
            \E j \in 1..(i - 1) :
                /\ AllowAt(j, TRUE)
                /\ \A k \in (j + 1)..(i - 1) : events[k].type # "call"
    /\ \A i \in DOMAIN events :
        AllowAt(i, FALSE) => i = Len(events) /\ RaisedCircuitOpen

\* a retried call ended by the breaker after a failed attempt, and a protected call rejected
C11_Witness ==
    \/ /\ ByRetryWrapper /\ NumCalls >= 2 /\ Len(events) > 1
       /\ AllowAt(Len(events), FALSE) /\ RaisedCircuitOpen
    \/ /\ wrapped_by = "protect" /\ icalls >= 2 /\ NumCalls = 0
       /\ AllowAt(1, FALSE) /\ RaisedCircuitOpen /\ outcome.reset_time > now

\* every invocation of the call so far raised
AlwaysFailing == \A i \in Invocations : events[i].res # "ok"

\* the invocations a call that found the breaker Closed may make before the circuit opens
UntilOpen == Min(max_attempts, failure_threshold - entry.count)

\* C12 as stated: a call through retry_with_circuit_breaker of an always-failing function
\* invokes it at most min(max_attempts, N - c) times when it found the breaker Closed with
\* c failures counted, and not at all when it found the breaker Open and rejecting.
C12_AtMostUntilOpen ==
    (ByRetryWrapper /\ AlwaysFailing) =>
        /\ entry.state = CLOSED => NumCalls <= UntilOpen
        /\ entry.rejecting => NumCalls = 0

\* C12, amended: the bound min(max_attempts, N - c) holds when reset_timeout_seconds > 0
\* (the timeout cannot have elapsed when the wrapper asks the breaker right after the
\* failure that opened it); a call ended by the breaker after a failed attempt invokes
\* nothing more and raises CircuitBreakerError; a call that finds the breaker Open and
\* rejecting invokes nothing.
C12_AtMostUntilOpenWithTimeout ==
    ByRetryWrapper =>
        /\ (AlwaysFailing /\ entry.state = CLOSED /\ reset_timeout_seconds > 0)
               => NumCalls <= UntilOpen
        /\ entry.rejecting => NumCalls = 0 /\ RaisedCircuitOpen
        /\ \A i \in DOMAIN events :
               (i > 1 /\ AllowAt(i, FALSE)) =>
                   /\ i = Len(events) /\ RaisedCircuitOpen
                   /\ events[i - 1].type = "record_failure"
                   /\ attempt < max_attempts

\* a call that found c > 0 failures counted is ended by the breaker after N - c invocations
C12_Witness ==
    /\ ByRetryWrapper /\ AlwaysFailing /\ reset_timeout_seconds > 0
    /\ entry.state = CLOSED /\ entry.count > 0
    /\ NumCalls = failure_threshold - entry.count /\ NumCalls < max_attempts
    /\ NumCalls >= 2
    /\ RaisedCircuitOpen

\* C13: every invocation of a function wrapped by retry_with_circuit_breaker is followed
\* at once by exactly one report to the breaker, record_success() if it returned and
\* record_failure() if it raised, whatever it raised.
C13_EveryInvocationReported ==
    ByRetryWrapper =>
        /\ \A i \in Invocations :
            /\ i < Len(events)
            /\ events[i + 1].type = IF events[i].res = "ok" THEN "record_success"
                                    ELSE "record_failure"
        /\ \A i \in DOMAIN events :
            events[i].type \in {"record_success", "record_failure"} =>
                i > 1 /\ events[i - 1].type = "call"

\* the run that returned last was of a registered job
LastRan == last.job # "none" /\ last.known

\* the run that returned last called the job-started callback
LastTracked == LastRan /\ Len(last.log) > 0 /\ last.log[1].type = "start_cb"

\* C14: when the closure raises, or returns something that is not a dict, run_job
\* returns success = False with the error text and the run is classified failed; the
\* runs that return after such a failure return what their own closure produced.
C14_ClosureFailureContained ==
    /\ (LastRan /\ last.behaviour \in {"raises", "not_dict"}) =>
        /\ last.result.success = "False"
        /\ last.result.error = exception_text(last.behaviour)
        /\ last.status = "failed"
    /\ (LastRan /\ last.after_failure /\ last.behaviour \in {"ok", "no_flag", "failed"}) =>
        /\ last.result = closure_dict(last.behaviour)
        /\ last.status = IF last.behaviour = "failed" THEN "failed" ELSE "success"

\* a run returns success after the closure of an earlier run raised
C14_Witness ==
    /\ LastRan /\ last.after_failure /\ failed_before
    /\ last.behaviour = "ok" /\ last.result.success = "True"

\* C15: run_job for a job id that is not registered returns success = False with an
\* error naming the job, calls no callback and no closure.
C15_UnknownJobRejected ==
    /\ (last.job # "none" /\ last.job \notin _jobs) =>
        /\ last.result.success = "False"
        /\ last.result.error = <<"Unknown job", last.job>>
        /\ last.log = <<>>
    /\ \A r \in Runners : running[r].pc = "closure" => running[r].job \in _jobs

\* an unknown job id is rejected while the callbacks are set
C15_Witness ==
    /\ last.job # "none" /\ last.job \notin _jobs
    /\ _db_start_callback /\ _db_complete_callback
    /\ last.result.success = "False" /\ last.log = <<>>

\* the completion the run reports: the job-completed callback called with id, status,
\* result and error of the run
Completion(ev, id) ==
    /\ ev.type = "complete_cb"
    /\ ev.run_id = id
    /\ ev.status = last.status
    /\ ev.result = job_result(last.behaviour)
    /\ ev.error = job_error(last.behaviour)

\* C16 as stated: every run of a registered job that called the job-started callback
\* then ran the closure and called the job-completed callback once.
C16_EveryRunCompleted ==
    LastTracked =>
        /\ Len(last.log) = 4
        /\ last.log[2].type = "closure_start" /\ last.log[3].type = "closure_end"
        /\ last.log[4].type = "complete_cb"

\* C16, amended: the job-started callback is called once, first; then the closure runs;
\* the job-completed callback is called once after it, with the run's id, status, result
\* and error, exactly when the job-started callback returned a run id, and not at all
\* when it raised or returned None.
C16_StartedRunsCompleted ==
    LastTracked =>
        /\ last.log[2].type = "closure_start" /\ last.log[3].type = "closure_end"
        /\ IF last.log[1].did = "returns"
           THEN /\ Len(last.log) = 4
                /\ last.log[1].run_id # None
                /\ Completion(last.log[4], last.log[1].run_id)
           ELSE Len(last.log) = 3

\* a run whose closure raised is reported as failed to the job-completed callback
C16_Witness ==
    /\ LastTracked /\ last.behaviour = "raises"
    /\ Len(last.log) = 4 /\ last.log[4].type = "complete_cb" /\ last.log[4].status = "failed"

\* what run_job returns for a closure behaviour when nothing tracks the run
Untracked(b) ==
    CASE b = "ok" -> [success |-> "True", error |-> NoError]
      [] b = "no_flag" -> [success |-> "absent", error |-> NoError]
      [] b = "failed" -> [success |-> "False", error |-> <<"job error">>]
      [] b = "raises" -> [success |-> "False", error |-> <<"closure error">>]
      [] b = "not_dict" -> [success |-> "False", error |-> <<"no attribute get">>]

\* C17: whatever the callbacks are (absent, succeeding, raising), a run of a registered
\* job executes the closure once and returns the result that the closure's behaviour
\* alone determines; no failure of a callback reaches the caller.
C17_TrackingDoesNotInterfere ==
    LastRan =>
        /\ last.result = Untracked(last.behaviour)
        /\ Cardinality({i \in DOMAIN last.log : last.log[i].type = "closure_start"}) = 1
        /\ Cardinality({i \in DOMAIN last.log : last.log[i].type = "closure_end"}) = 1

\* a run whose job-completed callback raised returns the closure's result
C17_Witness ==
    /\ LastTracked /\ Len(last.log) = 4
    /\ last.log[4].type = "complete_cb" /\ last.log[4].did = "raises"
    /\ last.result.success = "True"

\* two threads are in the closure of the same job
Overlap(r1, r2) ==
    /\ r1 # r2
    /\ running[r1].pc = "closure" /\ running[r2].pc = "closure"
    /\ running[r1].job = running[r2].job

Parseable == {"cron", "interval_hours", "interval_minutes", "time"}

\* the enabled, registered jobs of the configuration whose trigger can be parsed
Schedulable ==
    {jobs_config[i].job_id : i \in {k \in DOMAIN jobs_config :
        /\ jobs_config[k].enabled
        /\ jobs_config[k].job_id \in _jobs
        /\ jobs_config[k].trigger \in Parseable}}

\* C19: after start() on an enabled scheduler that was not running, whatever triggers of
\* the configuration cannot be parsed, start() has returned True, the scheduler is
\* running and exactly the enabled, registered jobs with a parseable trigger are scheduled.
C19_OnlyUnparseableSkipped ==
    last_start.how = "attempted" =>
        /\ last_start.ret = "True"
        /\ _running
        /\ {j.job_id : j \in jobstore} = Schedulable

\* C20: a start() on a disabled scheduler (or without the scheduling library) returns
\* False and leaves the scheduler not running, without instance or jobs; a start() on a
\* running scheduler returns True and leaves the instance and its jobs (with their fire
\* times) as they were, however often it is repeated.
C20_StartIsNoOp ==
    [][nstarts' = nstarts + 1 =>
        /\ ~enabled =>
            /\ last_start'.ret = "False"
            /\ ~_running' /\ _scheduler' = None /\ jobstore' = {}
        /\ (enabled /\ _running) =>
            /\ last_start'.ret = "True"
            /\ _running' /\ _scheduler' = _scheduler /\ jobstore' = jobstore]_vars

\* start() was called twice more on a running scheduler with jobs: the instance is still
\* the one the first call made
C20_Witness ==
    /\ enabled /\ _running /\ nstarts >= 3 /\ _scheduler = 1
    /\ last_start = [ret |-> "True", how |-> "noop"]
    /\ Cardinality(jobstore) >= 2

\* the positions of the log at which a channel's send() was called
SendsAt(lg) == {k \in 1..Len(lg) : lg[k].type = "send"}

\* the positions of the log at which the history callback was called for target i
CallbacksAt(lg, i) == {j \in 1..Len(lg) : lg[j].type = "db_callback" /\ lg[j].pos = i}

\* a send() of the router has returned
Sent == last_send.priority # "none"

\* the channel has its enabled flag and its credential
Usable(c) == channels[c].enabled /\ channels[c].credential

\* C21: send() returns exactly one NotificationResult per channel name of the priority's
\* routing list, in the list's order, whatever each channel's outcome; while the loop runs
\* it has one result for every name it has passed, so no outcome stops the loop.
C21_OneResultPerTarget ==
    /\ npc = "loop" =>
         /\ Len(sent) = ci - 1
         /\ \A i \in 1..Len(sent) : sent[i].channel = target_channels(send_priority)[i]
    /\ Sent =>
         /\ Len(last_send.results) = Len(target_channels(last_send.priority))
         /\ \A i \in 1..Len(last_send.results) :
                last_send.results[i].channel = target_channels(last_send.priority)[i]

C21_Witness ==
    /\ Sent
    /\ Len(last_send.results) = 2
    /\ ~last_send.results[1].success
    /\ last_send.results[1].error = "Channel not configured"
    /\ last_send.results[2].success

\* C22: a name of the routing list that is unregistered or whose channel is not available
\* gets a failed result and its channel's send() is not called; send() of a channel is
\* called only if the channel is registered and available.
C22_SendOnlyRegisteredAvailable ==
    Sent =>
        LET t == target_channels(last_send.priority)
            lg == last_send.log
            rs == last_send.results
        IN  \A i \in 1..Len(t) :
                LET called == \E k \in SendsAt(lg) : lg[k].pos = i IN
                /\ Len(rs) >= i
                /\ called <=> (channels[t[i]].registered /\ Usable(t[i]))
                /\ ~channels[t[i]].registered =>
                       /\ ~rs[i].success /\ rs[i].channel = t[i]
                       /\ rs[i].error = "Channel not configured"
                /\ (channels[t[i]].registered /\ ~Usable(t[i])) =>
                       /\ ~rs[i].success /\ rs[i].channel = t[i]
                       /\ rs[i].error = "Channel not available"

C22_Witness ==
    /\ Sent
    /\ Len(last_send.results) = 2
    /\ channels[target_channels(last_send.priority)[1]].enabled
    /\ ~channels[target_channels(last_send.priority)[1]].credential
    /\ last_send.results[1].error = "Channel not available"
    /\ \E k \in SendsAt(last_send.log) : last_send.log[k].pos = 2

\* C23: when the history callback is set, every send() of a channel called by the router is
\* followed by exactly one call of the callback with that channel's success flag and error,
\* before anything is done for the next name; the callback is called for no other name; and
\* whether it returns or raises, the results hold the channel's outcome and cover every name.
C23_OutcomeLoggedOnce ==
    (Sent /\ db_callback) =>
        LET t == target_channels(last_send.priority)
            lg == last_send.log
            rs == last_send.results
        IN  /\ Len(rs) = Len(t)
            /\ \A k \in SendsAt(lg) :
                   /\ Cardinality(CallbacksAt(lg, lg[k].pos)) = 1
                   /\ \A j \in CallbacksAt(lg, lg[k].pos) :
                          /\ j > k
                          /\ \A m \in k..j : lg[m].pos = lg[k].pos
                          /\ lg[j].success = rs[lg[k].pos].success
                          /\ lg[j].error = rs[lg[k].pos].error
                          /\ lg[j].channel = rs[lg[k].pos].channel
            /\ \A i \in 1..Len(t) :
                   CallbacksAt(lg, i) # {} => \E k \in SendsAt(lg) : lg[k].pos = i

C23_Witness ==
    /\ Sent /\ db_callback
    /\ Len(last_send.results) = 2
    /\ \E j \in CallbacksAt(last_send.log, 1) :
           last_send.log[j].did = "raises" /\ ~last_send.log[j].success
    /\ \E k \in SendsAt(last_send.log) : last_send.log[k].pos = 2

\* every NotificationResult the model holds
AllResults ==
    {sent[i] : i \in 1..Len(sent)}
    \cup (IF Sent THEN {last_send.results[i] : i \in 1..Len(last_send.results)} ELSE {})
    \cup (IF direct.channel # "none" THEN {direct.result} ELSE {})

\* C24: send() of a channel whose enabled flag is false or whose credential is missing
\* returns a failed result with an error text and no sent timestamp and issues no request;
\* a NotificationResult has a sent timestamp only if its success flag is true.
C24_UnavailableFailsWithoutRequest ==
    /\ (direct.channel # "none" /\ ~Usable(direct.channel)) =>
           /\ ~direct.result.success
           /\ direct.result.error # "None"
           /\ direct.result.sent_at = None
           /\ direct.requests = <<>>
    /\ \A r \in AllResults : r.sent_at # None => r.success

C24_Witness ==
    /\ direct.channel # "none"
    /\ channels[direct.channel].enabled
    /\ ~channels[direct.channel].credential
    /\ ~direct.result.success

\* C25: the requests of a channel go through the breaker of the channel's service: once
\* failure_threshold requests of a channel have failed in a row, the breaker is Open (and
\* lets no request through before its reset timeout has elapsed).
C25_DeliveriesThroughBreaker ==
    \A c \in ChannelNames : net_streak[c] >= failure_threshold => _state = OPEN

\* fetch_all_accounts has returned
FetchReturned == fpc = "done" /\ fetch_result.returned

\* the sum of a number per account over the accounts whose status is ok
OkSum(rs, value(_)) ==
    Sum([i \in 1..Len(rs) |-> IF rs[i].status = "ok" THEN value(rs[i]) ELSE 0])

\* the steps the session of an account is classified by
ClassifiedSteps == {"connect", "login", "select", "search_unseen", "search_flagged"}

\* C26: fetch_all_accounts returns one AccountDigest per configured account, in the order of
\* the configuration, whatever each account's outcome; no failure of an account ends the
\* loop or reaches the caller.
C26_OneDigestPerAccount ==
    /\ fpc \in {"loop", "session"} => Len(inboxes) = ai - 1
    /\ fpc = "done" =>
         /\ fetch_result.returned
         /\ Len(fetch_result.accounts) = Len(accounts)
         /\ \A i \in 1..Len(accounts) : fetch_result.accounts[i].account = accounts[i].email

C26_Witness ==
    /\ FetchReturned
    /\ Len(fetch_result.accounts) = 2
    /\ fetch_result.accounts[1].error = "Exception"
    /\ fetch_result.accounts[2].status = "ok"

\* C27: the totals of a FetchResult are the sums over the accounts whose status is ok, for
\* unread, urgent, attachments and extracted PDFs alike, and every account whose status is
\* not ok has exactly one entry in the error list.
C27_TotalsOfOkAccounts ==
    FetchReturned =>
        LET rs == fetch_result.accounts
            Unread(r) == r.total_unread
            Urgent(r) == r.urgent
            Attachments(r) == r.attachments_processed
            Pdfs(r) == r.pdfs_extracted
        IN  /\ fetch_result.total_unread = OkSum(rs, Unread)
            /\ fetch_result.total_urgent = OkSum(rs, Urgent)
            /\ fetch_result.total_attachments = OkSum(rs, Attachments)
            /\ fetch_result.total_pdfs_extracted = OkSum(rs, Pdfs)
            /\ \A i \in 1..Len(rs) :
                   rs[i].status # "ok" =>
                       Cardinality({k \in 1..Len(fetch_result.errors) :
                                       fetch_result.errors[k].account = rs[i].account}) = 1

\* C28: fetch_account for an account without a credential returns status error with an
\* error detail and asks the mail server for nothing: no connection, login or search.
C28_NoCredentialNoConnection ==
    \A i \in 1..Len(inboxes) :
        ~accounts[i].app_password =>
            /\ inboxes[i].status = "error"
            /\ inboxes[i].error = "No app_password configured"
            /\ sessions[i].done = <<>>
            /\ ~sessions[i].opened

C28_Witness ==
    /\ Len(inboxes) = 2
    /\ ~accounts[2].app_password
    /\ inboxes[2].status = "error"
    /\ sessions[1].opened

\* C29: the status of a session is given by the failure at connect, authenticate, select or
\* search: timeout for a timeout, error for a protocol error or any other exception, and ok
\* exactly when none of these steps failed; the error detail is set exactly when the status
\* is not ok.
C29_StatusByFailure ==
    \A i \in 1..Len(inboxes) :
        accounts[i].app_password =>
            /\ inboxes[i].status =
                   IF sessions[i].failed_at \in ClassifiedSteps
                   THEN (IF sessions[i].kind = "TimeoutError" THEN "timeout" ELSE "error")
                   ELSE "ok"
            /\ (inboxes[i].error # "None") <=> (inboxes[i].status # "ok")

\* C30: every session whose connection was established has had a logout attempt when
\* fetch_account returns, whether the session succeeded or failed at a later step.
C30_OpenedSessionsLoggedOut ==
    \A i \in 1..Len(sessions) : sessions[i].opened => sessions[i].logouts >= 1

C30_Witness ==
    /\ Len(sessions) = 2
    /\ sessions[1].opened /\ sessions[1].failed_at = "login" /\ sessions[1].kind = "TimeoutError"
    /\ sessions[2].opened /\ sessions[2].failed_at = "none" /\ sessions[2].logouts = 2

\* C31: a failure of the logout step never changes the account's outcome: a session whose
\* connect, login, select, searches and fetches succeeded has status ok and no error detail
\* even if its logout raised.
C31_LogoutFailureSwallowed ==
    \A i \in 1..Len(inboxes) :
        (accounts[i].app_password /\ sessions[i].failed_at = "logout") =>
            /\ inboxes[i].status = "ok"
            /\ inboxes[i].error = "None"

\* C39: with one caller at a time and failure_threshold >= 1, a Closed breaker has a failure
\* count below failure_threshold, and the failure count decreases only by being set to zero
\* in a step that ends in Closed.
C39_ClosedBelowThreshold ==
    /\ [](_state = CLOSED => _failure_count < failure_threshold)
    /\ [][_failure_count' < _failure_count => (_failure_count' = 0 /\ _state' = CLOSED)]_vars

C39_Witness ==
    /\ lastOp = "reset"
    /\ prev = OPEN
    /\ _state = CLOSED
    /\ _failure_count = 0
    /\ peak >= failure_threshold

\* the positions of the log of the run that returned last at which the job-completed
\* callback was called
CompletionsAt == {i \in DOMAIN last.log : last.log[i].type = "complete_cb"}

\* C40: the job-completed callback is called at most once per run, after the closure has
\* finished, and only with the run id the job-started callback returned in the same run;
\* it is not called when the job-started callback is absent, raised or returned no id.
C40_CompletionOnlyForStartedRun ==
    LastRan =>
        /\ Cardinality(CompletionsAt) <= 1
        /\ \A i \in CompletionsAt :
               /\ \E k \in 1..(i - 1) : last.log[k].type = "closure_end"
               /\ last.log[1].type = "start_cb"
               /\ last.log[1].did = "returns"
               /\ last.log[1].run_id # None
               /\ last.log[i].run_id = last.log[1].run_id

\* the job-started callback raised and the job-completed callback, though set, was not called
C40_Witness ==
    /\ LastTracked
    /\ last.log[1].did = "raises"
    /\ _db_complete_callback
    /\ CompletionsAt = {}
    /\ last.behaviour = "ok"

\* the positions of the wrapper's sleeps
SleepsAt == {i \in DOMAIN events : events[i].type = "sleep"}

C38_ProbeBudgetReleased ==
    rpc = "done" => ~(_state = HALF_OPEN /\ _half_open_calls >= half_open_max_calls)

(* C32: partial failures are isolated per item. For a message that was fetched and  *)
(* parsed, with attachments extracted: the message is returned; a part whose payload *)
(* cannot be decoded, or whose PDF text extraction reports an error, is recorded     *)
(* "failed" with a reason; an oversized PDF is recorded "skipped" with a reason;     *)
(* every other attachment keeps its own status; the outcome does not depend on the   *)
(* store callback. A message whose fetch or parse fails is skipped, and the loop     *)
(* goes on to the next id.                                                           *)
Recorded(part) ==
    part.disposition = "attachment" /\ part.filename = "plain" /\ part.payload # "empty"

OwnStatus(part) ==
    IF part.payload = "raises" THEN "failed"
    ELSE IF part.content_type = "application/pdf" /\ extract_pdfs
    THEN IF part.payload = "large" THEN "skipped"
         ELSE IF part.pdf = "text" THEN "success" ELSE "failed"
    ELSE IF part.content_type = "text/plain" THEN "success" ELSE "skipped"

NeedsReason(part) ==
    \/ part.payload = "raises"
    \/ /\ part.content_type = "application/pdf" /\ extract_pdfs
       /\ part.payload = "large" \/ part.pdf = "error"

C32_PartialFailuresIsolated ==
    (last_message.id # 0) =>
        /\ mi = last_message.id - 1
        /\ last_message.outcome # "ok" =>
               (~last_message.returned /\ \A k \in DOMAIN messages : messages[k] # last_message.id)
        /\ (last_message.outcome = "ok" /\ extract_attachments) =>
               /\ last_message.returned
               /\ messages # <<>> /\ messages[Len(messages)] = last_message.id
               /\ \A i \in DOMAIN last_message.parts :
                      Recorded(last_message.parts[i]) =>
                          \E k \in DOMAIN last_message.attachments :
                              LET a == last_message.attachments[k] IN
                              /\ a.part = i
                              /\ a.extraction_status = OwnStatus(last_message.parts[i])
                              /\ NeedsReason(last_message.parts[i]) =>
                                     a.extraction_error # "None"

C34_DatesUnique ==
    lop = "parse_letter" =>
        LET ds == analysis.dates
            x == letter.exprs
        IN  /\ \A i \in DOMAIN ds : \A j \in DOMAIN ds : i # j => ds[i].date # ds[j].date
            /\ \A i \in DOMAIN ds :
                   LET p == ds[i].original_text.pattern
                       at == ds[i].original_text.at
                   IN  /\ at \in DOMAIN x /\ matches(p, x[at])
                       /\ extracted(p, x[at], today) = ds[i].date
                       /\ \A q \in 0..3 : \A j \in DOMAIN x :
                              (matches(q, x[j]) /\ extracted(q, x[j], today) = ds[i].date) =>
                                  (q > p \/ (q = p /\ j >= at))
            /\ \A q \in 0..3 : \A j \in DOMAIN x :
                   (matches(q, x[j]) /\ extracted(q, x[j], today) # NoDate) =>
                       \E i \in DOMAIN ds : ds[i].date = extracted(q, x[j], today)
            /\ IF ds = <<>> THEN analysis.earliest_date = NoDate
               ELSE /\ \E i \in DOMAIN ds : ds[i].date = analysis.earliest_date
                    /\ \A i \in DOMAIN ds : ~earlier(ds[i].date, analysis.earliest_date)

\* one date written as a number first and with a full month name after it: the list
\* holds it once, as the match of the full-month pattern
C34_Witness ==
    /\ lop = "parse_letter"
    /\ Len(letter.exprs) = 2
    /\ letter.exprs[1].style = "numeric" /\ letter.exprs[2].style = "full"
    /\ Len(analysis.dates) = 1
    /\ analysis.dates[1].original_text = [pattern |-> 0, at |-> 2]

(* C35: a weekday, day and month without a year is resolved to the current year, or  *)
(* to the next year when that date is before today; the result is never before       *)
(* today; an expression that is no calendar date in the chosen year is dropped, and  *)
(* the analysis is returned all the same.                                            *)
C35_WeekdayYearInferred ==
    lop = "parse_letter" =>
        /\ \A i \in DOMAIN analysis.dates :
               analysis.dates[i].original_text.pattern = 3 =>
                   ~earlier(analysis.dates[i].date, today)
        /\ \A i \in DOMAIN letter.exprs :
               LET e == letter.exprs[i]
                   past == /\ valid_date(today.year, e.month, e.day)
                           /\ earlier(date(today.year, e.month, e.day), today)
                   chosen == IF past THEN today.year + 1 ELSE today.year
                   found == {k \in DOMAIN analysis.dates :
                                 analysis.dates[k].original_text = [pattern |-> 3, at |-> i]}
               IN  (e.weekday /\ e.year = NoYear) =>
                       IF valid_date(chosen, e.month, e.day)
                       THEN /\ \E k \in DOMAIN analysis.dates :
                                   analysis.dates[k].date = date(chosen, e.month, e.day)
                            /\ \A k \in found :
                                   analysis.dates[k].date = date(chosen, e.month, e.day)
                       ELSE found = {}

\* a weekday expression of a day already past is resolved to the next year
C35_Witness ==
    /\ lop = "parse_letter"
    /\ \E k \in DOMAIN analysis.dates :
           /\ analysis.dates[k].original_text.pattern = 3
           /\ letter.exprs[analysis.dates[k].original_text.at].year = NoYear
           /\ analysis.dates[k].date.year = today.year + 1

(* C36: a letter with exactly one date expression, a calendar date, yields exactly   *)
(* one ExtractedDate, the date written, in every supported way of writing it.        *)
C36_OneExpressionOneDate ==
    (lop = "parse_letter" /\ Len(letter.exprs) = 1) =>
        LET e == letter.exprs[1]
            is_date == IF e.year = NoYear THEN inferred(e.month, e.day, today) # NoDate
                       ELSE valid_date(e.year, e.month, e.day)
        IN  is_date =>
                /\ Len(analysis.dates) = 1
                /\ analysis.dates[1].date.day = e.day
                /\ analysis.dates[1].date.month = e.month
                /\ e.year # NoYear => analysis.dates[1].date.year = e.year

====
